---- MODULE Spec2Model ----
(***************************************************************************)
(* CodeGhost: the pattern repository (PatternStore), its durable store     *)
(* file .codeghost/bug_memory.json, the risk scorer (RiskScorer), the      *)
(* scanner (CodeScanner), the diff analyzer (PatternExtractor) and the     *)
(* handlers of extension.ts over the editor host (settings, editors,       *)
(* decorations, timers).                                                   *)
(*                                                                         *)
(* JavaScript values are modelled as records of one shape so that any two  *)
(* of them can be compared: an object carries the set `has` of the keys it *)
(* owns, and a key it does not own holds a fixed filler.  Arrays are       *)
(* sequences, indexed from 1 (JavaScript index i is i + 1 here, and the    *)
(* "not found" index -1 is 0).  Strings whose characters the code looks at *)
(* (regex sources, file paths, category names) are spelled out by Chars.   *)
(* Scores are kept in thousandths so that the .5 steps and log2 are exact  *)
(* where Math.round looks at them.                                         *)
(***************************************************************************)
EXTENDS Integers, Sequences, FiniteSets, TLC

VARIABLES
  memory,   \* PatternStore.memory: what load returned, then mutated in place
  disk,     \* the file .codeghost/bug_memory.json
  call,     \* the operation that ran last, with its arguments
  ret,      \* how it ended: raised or returned, and the value returned
  ext,      \* the module variables of extension.ts
  vscode    \* the editor host: settings, editors, decorations, timers

\* the variables that the engine alone never touches
host == <<ext, vscode>>

vars == <<memory, disk, call, ret, ext, vscode>>

-----------------------------------------------------------------------------
(* Bounds of the model *)

\* longest batch handed to addPatterns in one call
MaxBatch == 2
\* addPatterns is not called once a stored occurrence_count would pass this
MaxOccurrences == 3
\* how far below 1 and above 10 the risk_base values scored go
RiskMargin == 3
\* most lines of a scanned document
MaxLines == 2
\* most lines of a patch
MaxPatch == 4
\* most bug-fix commits of a history
MaxHistory == 2
\* extracted patterns are not merged once a stored occurrence_count would
\* pass this
MaxStored == 3
\* no document change is taken while this many timers are pending
MaxTimers == 2

-----------------------------------------------------------------------------
(* Strings the code inspects character by character *)

Chars(s) ==
  CASE s = "null_check_missing" -> <<"n", "u", "l", "l", "_", "c", "h", "e", "c", "k", "_", "m", "i", "s", "s", "i", "n", "g">>
    [] s = "off_by_one_loop" -> <<"o", "f", "f", "_", "b", "y", "_", "o", "n", "e", "_", "l", "o", "o", "p">>
    [] s = "missing_await" -> <<"m", "i", "s", "s", "i", "n", "g", "_", "a", "w", "a", "i", "t">>
    [] s = "undefined_access" -> <<"u", "n", "d", "e", "f", "i", "n", "e", "d", "_", "a", "c", "c", "e", "s", "s">>
    [] s = "race_condition" -> <<"r", "a", "c", "e", "_", "c", "o", "n", "d", "i", "t", "i", "o", "n">>
    [] s = "memory_leak" -> <<"m", "e", "m", "o", "r", "y", "_", "l", "e", "a", "k">>
    [] s = "type_error" -> <<"t", "y", "p", "e", "_", "e", "r", "r", "o", "r">>
    [] s = "logic_error" -> <<"l", "o", "g", "i", "c", "_", "e", "r", "r", "o", "r">>
    [] s = "loose_equality" -> <<"l", "o", "o", "s", "e", "_", "e", "q", "u", "a", "l", "i", "t", "y">>
    [] s = "missing_error_handling" -> <<"m", "i", "s", "s", "i", "n", "g", "_", "e", "r", "r", "o", "r", "_", "h", "a", "n", "d", "l", "i", "n", "g">>
    [] s = "unhandled_promise" -> <<"u", "n", "h", "a", "n", "d", "l", "e", "d", "_", "p", "r", "o", "m", "i", "s", "e">>
    [] s = "var_scoping" -> <<"v", "a", "r", "_", "s", "c", "o", "p", "i", "n", "g">>
    [] s = "other" -> <<"o", "t", "h", "e", "r">>
    [] s = "\\w+\\[\\w+\\](?!\\?)" -> <<"\\", "w", "+", "\\", "[", "\\", "w", "+", "\\", "]", "(", "?", "!", "\\", "?", ")">>
    [] s = "\\buser\\.name\\b(?!\\?)" -> <<"\\", "b", "u", "s", "e", "r", "\\", ".", "n", "a", "m", "e", "\\", "b", "(", "?", "!", "\\", "?", ")">>
    [] s = "for\\s*\\([^;]*;\\s*\\w+\\s*<=\\s*\\w+\\.length" -> <<"f", "o", "r", "\\", "s", "*", "\\", "(", "[", "^", ";", "]", "*", ";", "\\", "s", "*", "\\", "w", "+", "\\", "s", "*", "<", "=", "\\", "s", "*", "\\", "w", "+", "\\", ".", "l", "e", "n", "g", "t", "h">>
    [] s = "src/a.ts" -> <<"s", "r", "c", "/", "a", ".", "t", "s">>
    [] s = "lib/data.ts" -> <<"l", "i", "b", "/", "d", "a", "t", "a", ".", "t", "s">>
    [] s = "src/b.ts" -> <<"s", "r", "c", "/", "b", ".", "t", "s">>
    [] s = "src\\a.ts" -> <<"s", "r", "c", "\\", "a", ".", "t", "s">>
    [] s = "src/" -> <<"s", "r", "c", "/">>
    [] s = "\\w+" -> <<"\\", "w", "+">>
    [] s = "" -> <<>>
    [] OTHER -> [i \in 1..Len(s) |-> SubSeq(s, i, i)]

\* String.prototype.charCodeAt for the characters above
CharCode(c) ==
  CASE c = "!" -> 33 [] c = "(" -> 40 [] c = ")" -> 41 [] c = "*" -> 42
    [] c = "+" -> 43 [] c = "." -> 46 [] c = "/" -> 47 [] c = ";" -> 59
    [] c = "<" -> 60 [] c = "=" -> 61 [] c = "?" -> 63 [] c = "[" -> 91
    [] c = "\\" -> 92 [] c = "]" -> 93 [] c = "^" -> 94 [] c = "_" -> 95
    [] c = "a" -> 97 [] c = "b" -> 98 [] c = "c" -> 99 [] c = "d" -> 100
    [] c = "e" -> 101 [] c = "f" -> 102 [] c = "g" -> 103 [] c = "h" -> 104
    [] c = "i" -> 105 [] c = "k" -> 107 [] c = "l" -> 108 [] c = "m" -> 109
    [] c = "n" -> 110 [] c = "o" -> 111 [] c = "p" -> 112 [] c = "q" -> 113
    [] c = "r" -> 114 [] c = "s" -> 115 [] c = "t" -> 116 [] c = "u" -> 117
    [] c = "v" -> 118 [] c = "w" -> 119 [] c = "y" -> 121

\* String.prototype.includes on character sequences
Includes(hay, needle) ==
  LET h == hay
      n == needle
  IN  \E i \in 0..(Len(h) - Len(n)) : \A j \in 1..Len(n) : h[i + j] = n[j]

-----------------------------------------------------------------------------
(* RegExp and String.prototype.match, for the regular expressions the code *)
(* writes: characters, escapes, ".", classes in brackets, the quantifiers  *)
(* "*", "+" and "?" after a one-character atom, capturing groups and       *)
(* negative lookaheads "(?!...)".  A compiled expression is a sequence of  *)
(* atoms; a source the constructor rejects (SyntaxError) compiles to       *)
(* ok = FALSE.                                                             *)

LowerCase == "abcdefghijklmnopqrstuvwxyz"
UpperCase == "ABCDEFGHIJKLMNOPQRSTUVWXYZ"
Digits == {"0", "1", "2", "3", "4", "5", "6", "7", "8", "9"}
Letters ==
  {SubSeq(LowerCase, i, i) : i \in 1..26} \cup {SubSeq(UpperCase, i, i) : i \in 1..26}
WordChars == Letters \cup Digits \cup {"_"}
WhiteSpace == {" ", "\t"}

\* String.prototype.toLowerCase of one character
ToLower(c) ==
  IF \E i \in 1..26 : SubSeq(UpperCase, i, i) = c
  THEN LET i == CHOOSE k \in 1..26 : SubSeq(UpperCase, k, k) = c
       IN  SubSeq(LowerCase, i, i)
  ELSE c

\* a set of characters: \w, \s, \d, ".", or the characters listed; negated
\* for [^...]
CharSet(kind, set, neg) == [kind |-> kind, set |-> set, neg |-> neg]

CharAtom(cs, q) == [t |-> "char", cs |-> cs, q |-> q, sub |-> <<>>]
NoCharSet == CharSet("set", {}, FALSE)
\* \b, "(" and ")" of a capturing group, (?!sub)
ZeroWidth(t, sub) == [t |-> t, cs |-> NoCharSet, q |-> "1", sub |-> sub]

SyntaxError == [ok |-> FALSE, atoms |-> <<>>, next |-> 0]

\* the quantifier that follows a one-character atom ending before p[j]
Quantified(p, cs, j) ==
  IF j <= Len(p) /\ p[j] \in {"*", "+", "?"}
  THEN [ok |-> TRUE, atoms |-> <<CharAtom(cs, p[j])>>, next |-> j + 1]
  ELSE [ok |-> TRUE, atoms |-> <<CharAtom(cs, "1")>>, next |-> j]

\* index of the "]" that closes the class opened before p[i], 0 if none
ClassEnd(p, i) ==
  IF \E j \in i..Len(p) : p[j] = "]"
  THEN CHOOSE j \in i..Len(p) : p[j] = "]" /\ \A k \in i..(j - 1) : p[k] # "]"
  ELSE 0

RECURSIVE ParseAtoms(_, _, _)
RECURSIVE ParseOne(_, _, _)

\* the atoms from p[i] up to the end (depth 0) or to the ")" that closes
\* the group being read (depth > 0)
ParseAtoms(p, i, depth) ==
  IF i > Len(p) THEN [ok |-> depth = 0, atoms |-> <<>>, next |-> i]
  ELSE IF p[i] = ")" THEN [ok |-> depth > 0, atoms |-> <<>>, next |-> i + 1]
  ELSE
    LET Both(one) ==
          IF ~one.ok THEN SyntaxError
          ELSE LET Joined(rest) ==
                     [ok |-> rest.ok, atoms |-> one.atoms \o rest.atoms,
                      next |-> rest.next]
               IN  Joined(ParseAtoms(p, one.next, depth))
    IN  Both(ParseOne(p, i, depth))

ParseOne(p, i, depth) ==
  LET c == p[i] IN
  CASE c = "\\" ->
         IF i = Len(p) THEN SyntaxError
         ELSE LET e == p[i + 1] IN
              CASE e = "b" -> [ok |-> TRUE, atoms |-> <<ZeroWidth("b", <<>>)>>,
                               next |-> i + 2]
                [] e = "w" -> Quantified(p, CharSet("w", {}, FALSE), i + 2)
                [] e = "s" -> Quantified(p, CharSet("s", {}, FALSE), i + 2)
                [] e = "d" -> Quantified(p, CharSet("d", {}, FALSE), i + 2)
                [] OTHER -> Quantified(p, CharSet("set", {e}, FALSE), i + 2)
    [] c = "." -> Quantified(p, CharSet("any", {}, FALSE), i + 1)
    [] c = "[" ->
         LET neg == i < Len(p) /\ p[i + 1] = "^"
             from == IF neg THEN i + 2 ELSE i + 1
             end == ClassEnd(p, from)
         IN  IF end = 0 THEN SyntaxError
             ELSE Quantified(p, CharSet("set", {p[k] : k \in from..(end - 1)}, neg),
                             end + 1)
    [] c = "(" ->
         LET lookahead == i + 2 <= Len(p) /\ p[i + 1] = "?" /\ p[i + 2] = "!"
             Grouped(inner) ==
               IF ~inner.ok THEN SyntaxError
               ELSE [ok |-> TRUE,
                     atoms |-> IF lookahead THEN <<ZeroWidth("nla", inner.atoms)>>
                               ELSE <<ZeroWidth("(", <<>>)>> \o inner.atoms
                                      \o <<ZeroWidth(")", <<>>)>>,
                     next |-> inner.next]
         IN  Grouped(ParseAtoms(p, IF lookahead THEN i + 3 ELSE i + 1, depth + 1))
    [] c \in {"*", "+", "?"} -> SyntaxError
    [] OTHER -> Quantified(p, CharSet("set", {c}, FALSE), i + 1)

\* new RegExp(source, flags): the flag i makes letters match in either case
\* (the flag g changes only what match returns besides null or not null)
RegExp(source, ignoreCase) ==
  LET r == ParseAtoms(Chars(source), 1, 0)
  IN  [ok |-> r.ok, atoms |-> r.atoms, ignoreCase |-> ignoreCase]

CharIn(c, cs, ignoreCase) ==
  LET in == CASE cs.kind = "w" -> c \in WordChars
              [] cs.kind = "s" -> c \in WhiteSpace
              [] cs.kind = "d" -> c \in Digits
              [] cs.kind = "any" -> TRUE
              [] OTHER -> IF ignoreCase
                          THEN ToLower(c) \in {ToLower(x) : x \in cs.set}
                          ELSE c \in cs.set
  IN  in # cs.neg

\* how many of the characters after position pos (0 = before the first)
\* the atom may take at most
MaxRun(a, s, pos, ignoreCase) ==
  LET Fits(n) == \A k \in 1..n : CharIn(s[pos + k], a.cs, ignoreCase)
      longest == CHOOSE n \in 0..(Len(s) - pos) :
                   Fits(n) /\ (n = Len(s) - pos \/ ~Fits(n + 1))
  IN  IF a.q \in {"1", "?"} /\ longest > 1 THEN 1 ELSE longest

WordBoundary(s, pos) ==
  LET before == pos >= 1 /\ s[pos] \in WordChars
      after == pos < Len(s) /\ s[pos + 1] \in WordChars
  IN  before # after

\* the positions from which atoms[i..] match, for i, i + 1, ... and the end
\* of the expression: a sequence of sets of positions.  The value for
\* i + 1 is bound through a one-element set, so that it is computed once.
RECURSIVE MatchSets(_, _, _, _)
MatchSets(atoms, i, s, ignoreCase) ==
  IF i > Len(atoms) THEN <<0..Len(s)>>
  ELSE
    LET a == atoms[i]
        From(rest) ==
          LET next == rest[1]
              here ==
                CASE a.t = "char" ->
                       {pos \in 0..Len(s) :
                          \E n \in (IF a.q \in {"1", "+"} THEN 1 ELSE 0)
                                     ..MaxRun(a, s, pos, ignoreCase) :
                            pos + n \in next}
                  [] a.t = "b" -> {pos \in next : WordBoundary(s, pos)}
                  [] a.t = "nla" ->
                       CHOOSE set \in
                         {next \ sub[1] :
                            sub \in {MatchSets(a.sub, 1, s, ignoreCase)}} : TRUE
                  [] OTHER -> next
          IN  <<here>> \o rest
    IN  CHOOSE sets \in
          {From(rest) : rest \in {MatchSets(atoms, i + 1, s, ignoreCase)}} : TRUE

\* the backtracking match from position pos, which is in sets[1]:
\* quantifiers are greedy, so every atom takes the longest run after which
\* the rest still matches; the result holds the position after each atom
RECURSIVE MatchEnds(_, _, _, _, _, _)
MatchEnds(atoms, sets, i, pos, s, ignoreCase) ==
  IF i > Len(atoms) THEN <<>>
  ELSE
    LET a == atoms[i]
        at == IF a.t = "char"
              THEN LET good == {n \in 0..MaxRun(a, s, pos, ignoreCase) :
                                  /\ n >= (IF a.q \in {"1", "+"} THEN 1 ELSE 0)
                                  /\ pos + n \in sets[i + 1]}
                   IN  pos + CHOOSE n \in good : \A m \in good : m <= n
              ELSE pos
    IN  <<at>> \o MatchEnds(atoms, sets, i + 1, at, s, ignoreCase)

\* String.prototype.match without the flag g: the leftmost match, as
\* [ok, start, ends], start being the position before its first character
Match(s, regex) ==
  CHOOSE m \in
    { IF sets[1] = {} THEN [ok |-> FALSE, start |-> 0, ends |-> <<>>]
      ELSE LET start == CHOOSE pos \in sets[1] : \A q \in sets[1] : pos <= q
           IN  [ok |-> TRUE, start |-> start,
                ends |-> MatchEnds(regex.atoms, sets, 1, start, s,
                                   regex.ignoreCase)] :
      sets \in {MatchSets(regex.atoms, 1, s, regex.ignoreCase)} } : TRUE

\* the text of the n-th capturing group of a match m of regex in s
Group(s, regex, m, n) ==
  LET opens == SelectSeq([k \in 1..Len(regex.atoms) |-> k],
                         LAMBDA k : regex.atoms[k].t = "(")
      closes == SelectSeq([k \in 1..Len(regex.atoms) |-> k],
                          LAMBDA k : regex.atoms[k].t = ")")
  IN  SubSeq(s, m.ends[opens[n]] + 1, m.ends[closes[n]])

-----------------------------------------------------------------------------
(* types.ts *)

\* the value of a property that is absent or was assigned undefined
Undefined == "<undefined>"

BugCategory ==
  { "null_check_missing", "off_by_one_loop", "missing_await", "undefined_access",
    "race_condition", "memory_leak", "type_error", "logic_error", "loose_equality",
    "missing_error_handling", "unhandled_promise", "var_scoping", "other" }

CommitReference(sha, file, line, message) ==
  [sha |-> sha, file |-> file, line |-> line, message |-> message]

BugPattern(id, language, regex, category, risk_base, commits, occurrence_count) ==
  [ id |-> id, language |-> language, regex |-> regex, category |-> category,
    risk_base |-> risk_base, commits |-> commits,
    occurrence_count |-> occurrence_count ]

\* BugMemory as a JavaScript object that owns the keys in `has`
BugMemory(has, version, generated_at, last_scanned_sha, patterns) ==
  [ type |-> "object", has |-> has, version |-> version,
    generated_at |-> generated_at, last_scanned_sha |-> last_scanned_sha,
    patterns |-> patterns ]

\* the JavaScript value null, in the same shape
JSNull ==
  [ type |-> "null", has |-> {}, version |-> 0, generated_at |-> "",
    last_scanned_sha |-> Undefined, patterns |-> <<>> ]

\* the object {} : no key of a BugMemory is present
JSEmptyObject == BugMemory({}, 0, "", Undefined, <<>>)

-----------------------------------------------------------------------------
(* The store file and JSON *)

\* the file does not exist
NoFile ==
  [exists |-> FALSE, readable |-> FALSE, kind |-> "none", value |-> JSNull]

\* the file exists and holds `kind` text: "json" (the JSON text of `value`),
\* "empty" (no characters) or "garbage" (text JSON.parse rejects)
File(kind, value) ==
  [exists |-> TRUE, readable |-> TRUE, kind |-> kind, value |-> value]

\* the file exists and readFileSync throws on it
UnreadableFile ==
  [exists |-> TRUE, readable |-> FALSE, kind |-> "garbage", value |-> JSNull]

\* JSON.stringify(value): a property whose value is undefined is left out
JSONstringify(m) ==
  IF m.type = "null" THEN JSNull
  ELSE [m EXCEPT !.has = {k \in @ : ~(k = "last_scanned_sha"
                                      /\ m.last_scanned_sha = Undefined)}]

\* whether JSON.parse accepts the text of the file
JSONparses(d) == d.kind = "json"

\* JSON.parse of the text of the file
JSONparse(d) == d.value

-----------------------------------------------------------------------------
(* PatternStore *)

\* property reads: this.memory.patterns raises a TypeError on null and is
\* undefined on an object without the key
IsObject(m) == m.type = "object"
HasPatterns(m) == IsObject(m) /\ "patterns" \in m.has

\* getPatterns / getAllPatterns (a memory without patterns yields no array)
getPatterns(m) == IF HasPatterns(m) THEN m.patterns ELSE <<>>

\* getLastScannedSha
getLastScannedSha(m) ==
  IF IsObject(m) /\ "last_scanned_sha" \in m.has THEN m.last_scanned_sha
  ELSE Undefined

\* the store load builds when it cannot read one
DefaultMemory(now) ==
  BugMemory({"version", "generated_at", "patterns"}, 1, now, Undefined, <<>>)

load_alwaysDefault(d, now) == DefaultMemory(now)

\* load: existsSync, readFileSync, JSON.parse; whatever fails is caught
load(d, now) ==
  IF d.exists /\ d.readable /\ JSONparses(d) THEN JSONparse(d)
  ELSE DefaultMemory(now)

\* what a failed writeFileSync leaves behind: nothing changed ("denied":
\* the file could not be opened) or a cut-off text ("partial": it was
\* opened, so truncated, and the write stopped)
FailedWrite(d, wr) ==
  IF wr = "partial" THEN File("garbage", JSNull) ELSE d

save_swallowsError(m, d, now, wr) ==
  IF ~IsObject(m) THEN [memory |-> m, disk |-> d, raised |-> FALSE, write |-> "none"]
  ELSE LET stamped == [m EXCEPT !.has = @ \cup {"generated_at"},
                                !.generated_at = now]
       IN  IF wr = "ok"
           THEN [memory |-> stamped, disk |-> File("json", JSONstringify(stamped)),
                 raised |-> FALSE, write |-> wr]
           ELSE [memory |-> stamped, disk |-> FailedWrite(d, wr),
                 raised |-> FALSE, write |-> wr]

\* save: stamp generated_at, stringify, writeFileSync; an error is logged
\* and thrown again.  wr is what writeFileSync does this time.
save(m, d, now, wr) ==
  IF ~IsObject(m) THEN [memory |-> m, disk |-> d, raised |-> TRUE, write |-> "none"]
  ELSE LET stamped == [m EXCEPT !.has = @ \cup {"generated_at"},
                                !.generated_at = now]
       IN  IF wr = "ok"
           THEN [memory |-> stamped, disk |-> File("json", JSONstringify(stamped)),
                 raised |-> FALSE, write |-> wr]
           ELSE [memory |-> stamped, disk |-> FailedWrite(d, wr),
                 raised |-> TRUE, write |-> wr]

getPatternsByLanguage_noWildcard(m, language) ==
  LET Test(p) == p.language = language IN SelectSeq(m.patterns, Test)

\* getPatternsByLanguage, on a memory that has a patterns array
getPatternsByLanguage(m, language) ==
  LET Test(p) == p.language = language \/ p.language = "unknown"
  IN  SelectSeq(m.patterns, Test)

SameKey(p, q) == p.regex = q.regex /\ p.category = q.category

findIndex_byId(patterns, newPattern) ==
  LET hits == {i \in DOMAIN patterns : patterns[i].id = newPattern.id}
  IN  IF hits = {} THEN 0 ELSE CHOOSE i \in hits : \A j \in hits : i <= j

\* the findIndex of addPatterns: the first stored pattern with the regex and
\* the category of newPattern, 0 when there is none
findIndex(patterns, newPattern) ==
  LET hits == {i \in DOMAIN patterns : SameKey(patterns[i], newPattern)}
  IN  IF hits = {} THEN 0 ELSE CHOOSE i \in hits : \A j \in hits : i <= j

\* Math.round(n / 2) for an integer n: halves round towards +Infinity
MathRoundHalf(n) == (n + 1) \div 2

mergeInto_countsOne(existing, newPattern) ==
  [existing EXCEPT
     !.occurrence_count = @ + 1,
     !.commits = @ \o newPattern.commits,
     !.risk_base = MathRoundHalf(@ + newPattern.risk_base)]

mergeInto_dedupesCommits(existing, newPattern) ==
  LET Fresh(c) == \A i \in DOMAIN existing.commits : existing.commits[i].sha # c.sha
  IN  [existing EXCEPT
         !.occurrence_count = @ + newPattern.occurrence_count,
         !.commits = @ \o SelectSeq(newPattern.commits, Fresh),
         !.risk_base = MathRoundHalf(@ + newPattern.risk_base)]

mergeInto_weighted(existing, newPattern) ==
  [existing EXCEPT
     !.occurrence_count = @ + newPattern.occurrence_count,
     !.commits = @ \o newPattern.commits,
     !.risk_base =
        (2 * (existing.risk_base * existing.occurrence_count
              + newPattern.risk_base * newPattern.occurrence_count)
         + (existing.occurrence_count + newPattern.occurrence_count))
        \div (2 * (existing.occurrence_count + newPattern.occurrence_count))]

mergeInto_addsRisk(existing, newPattern) ==
  [existing EXCEPT
     !.occurrence_count = @ + newPattern.occurrence_count,
     !.commits = @ \o newPattern.commits,
     !.risk_base = @ + newPattern.risk_base]

\* the merge branch of addPatterns
mergeInto(existing, newPattern) ==
  [existing EXCEPT
     !.occurrence_count = @ + newPattern.occurrence_count,
     !.commits = @ \o newPattern.commits,
     !.risk_base = MathRoundHalf(@ + newPattern.risk_base)]

\* the for loop of addPatterns over the batch
RECURSIVE addLoop(_, _)
addLoop(patterns, batch) ==
  IF batch = <<>> THEN patterns
  ELSE LET newPattern == Head(batch)
           existingIndex == findIndex(patterns, newPattern)
       IN  addLoop(
             IF existingIndex >= 1
             THEN [patterns EXCEPT ![existingIndex] = mergeInto(@, newPattern)]
             ELSE Append(patterns, newPattern),
             Tail(batch))

\* addPatterns: the loop, then save.  On a memory without a patterns array
\* the first findIndex raises a TypeError before anything is changed.
addPatterns(m, d, batch, now, wr) ==
  IF batch # <<>> /\ ~HasPatterns(m)
  THEN [memory |-> m, disk |-> d, raised |-> TRUE, write |-> "none"]
  ELSE save(IF batch = <<>> THEN m
            ELSE [m EXCEPT !.patterns = addLoop(@, batch)], d, now, wr)

updateLastScannedSha_noSave(m, d, sha, now, wr) ==
  IF ~IsObject(m)
  THEN [memory |-> m, disk |-> d, raised |-> TRUE, write |-> "none"]
  ELSE [memory |-> [m EXCEPT !.has = @ \cup {"last_scanned_sha"},
                             !.last_scanned_sha = sha],
        disk |-> d, raised |-> FALSE, write |-> "none"]

\* updateLastScannedSha
updateLastScannedSha(m, d, sha, now, wr) ==
  IF ~IsObject(m)
  THEN [memory |-> m, disk |-> d, raised |-> TRUE, write |-> "none"]
  ELSE save([m EXCEPT !.has = @ \cup {"last_scanned_sha"},
                      !.last_scanned_sha = sha], d, now, wr)

\* clear
clear(m, d, now, wr) ==
  IF ~IsObject(m)
  THEN [memory |-> m, disk |-> d, raised |-> TRUE, write |-> "none"]
  ELSE save([m EXCEPT !.has = @ \cup {"patterns", "last_scanned_sha"},
                      !.patterns = <<>>,
                      !.last_scanned_sha = Undefined], d, now, wr)

-----------------------------------------------------------------------------
(* RiskScorer.  Scores are in thousandths. *)

Min(a, b) == IF a <= b THEN a ELSE b
Max(a, b) == IF a >= b THEN a ELSE b

\* Math.round(x / 1000): halves round towards +Infinity
MathRound(x) == (x + 500) \div 1000

\* 1000 * Math.log(n) / Math.log(2) for n >= 1: exact at 1, 2 and 4, rounded
\* at 3, and from 5 on a lower bound that is already past the cap of 2
RECURSIVE Log2(_)
Log2(n) ==
  IF n = 1 THEN 0
  ELSE IF n = 3 THEN 1585
  ELSE 1000 + Log2(n \div 2)

\* filePath.split(/[\\/]/).pop() || '' : what follows the last separator
LastSegment(chars) ==
  LET cs == chars
      seps == {i \in DOMAIN cs : cs[i] \in {"/", "\\"}}
      last == IF seps = {} THEN 0 ELSE CHOOSE i \in seps : \A j \in seps : j <= i
  IN  SubSeq(cs, last + 1, Len(cs))

\* the loops of calculateFileHistoryFactor: the commit references of the
\* patterns whose file includes fileName
RECURSIVE countOccurrences(_, _)
countOccurrences(patterns, fileName) ==
  IF patterns = <<>> THEN 0
  ELSE LET Hit(commit) == Includes(Chars(commit.file), fileName)
       IN  Len(SelectSeq(Head(patterns).commits, Hit))
           + countOccurrences(Tail(patterns), fileName)

fileOccurrences(filePath, patterns) ==
  countOccurrences(patterns, LastSegment(Chars(filePath)))

calculateFileHistoryFactor(filePath, patterns) ==
  LET n == fileOccurrences(filePath, patterns)
  IN  IF n >= 5 THEN 1500
      ELSE IF n >= 3 THEN 1000
      ELSE IF n >= 1 THEN 500
      ELSE 0

\* the variance of calculateRiskScore: the sum of the char codes of the
\* category, mod 3, minus 1; 0 for an empty category
RECURSIVE SumCharCodes(_)
SumCharCodes(chars) ==
  IF chars = <<>> THEN 0 ELSE CharCode(Head(chars)) + SumCharCodes(Tail(chars))

variance(category) ==
  IF category # "" THEN (SumCharCodes(Chars(category)) % 3) - 1 ELSE 0

calculateRiskScore_noFinalClamp(pattern, filePath, patterns) ==
  LET occurrenceBonus == Min(2000, Log2(pattern.occurrence_count + 1))
      fileHistoryBonus == calculateFileHistoryFactor(filePath, patterns)
      generic == /\ Includes(Chars(pattern.regex), Chars("\\w+"))
                 /\ Len(Chars(pattern.regex)) < 30
      score == pattern.risk_base * 1000 + occurrenceBonus + fileHistoryBonus
               - (IF generic THEN 500 ELSE 0)
      finalScore == Max(1, Min(10, MathRound(score)))
  IN  finalScore + variance(pattern.category)

\* calculateRiskScore(pattern, filePath, patternStore), patterns being
\* patternStore.getPatterns()
calculateRiskScore(pattern, filePath, patterns) ==
  LET occurrenceBonus == Min(2000, Log2(pattern.occurrence_count + 1))
      fileHistoryBonus == calculateFileHistoryFactor(filePath, patterns)
      generic == /\ Includes(Chars(pattern.regex), Chars("\\w+"))
                 /\ Len(Chars(pattern.regex)) < 30
      score == pattern.risk_base * 1000 + occurrenceBonus + fileHistoryBonus
               - (IF generic THEN 500 ELSE 0)
      finalScore == Max(1, Min(10, MathRound(score)))
  IN  Max(1, Min(10, finalScore + variance(pattern.category)))

adjustForSensitivity_above(score, sensitivity) ==
  CASE sensitivity = "low" -> IF score > 7 THEN score ELSE 0
    [] sensitivity = "medium" -> IF score > 5 THEN score ELSE 0
    [] sensitivity = "high" -> IF score > 3 THEN score ELSE 0
    [] OTHER -> score

adjustForSensitivity_swapped(score, sensitivity) ==
  CASE sensitivity = "low" -> IF score >= 3 THEN score ELSE 0
    [] sensitivity = "medium" -> IF score >= 5 THEN score ELSE 0
    [] sensitivity = "high" -> IF score >= 7 THEN score ELSE 0
    [] OTHER -> score

\* the scores here are the integers calculateRiskScore returns, not
\* thousandths
adjustForSensitivity(score, sensitivity) ==
  CASE sensitivity = "low" -> IF score >= 7 THEN score ELSE 0
    [] sensitivity = "medium" -> IF score >= 5 THEN score ELSE 0
    [] sensitivity = "high" -> IF score >= 3 THEN score ELSE 0
    [] OTHER -> score

-----------------------------------------------------------------------------
(* Inputs *)

\* what new Date().toISOString() returns in load and in save
TimeLoaded == "2025-01-01T00:00:00.000Z"
TimeSaved == "2025-01-02T00:00:00.000Z"

Shas == {"sha1", "sha2"}

\* what a writeFileSync can do
WriteOutcomes == {"ok", "denied", "partial"}

QueryLanguages == {"typescript", "python", "unknown", "go"}

FilePaths == {"src/a.ts", "lib/data.ts", "src/b.ts", "src\\a.ts", "src/", ""}

Regexes ==
  { "\\w+\\[\\w+\\](?!\\?)", "\\buser\\.name\\b(?!\\?)",
    "for\\s*\\([^;]*;\\s*\\w+\\s*<=\\s*\\w+\\.length" }

CommitA == CommitReference("sha1", "src/a.ts", 10, "fix crash on empty list")
CommitD == CommitReference("sha2", "lib/data.ts", 3, "fix undefined access")

\* patterns as extractPatterns or any other caller may hand them in:
\* Incoming1 and Incoming2 share regex and category and differ in the rest,
\* Incoming3 shares only the regex with them and Incoming4 only the category
Incoming1 ==
  BugPattern("pattern_1", "typescript", "\\w+\\[\\w+\\](?!\\?)",
             "undefined_access", 7, <<CommitA>>, 1)
Incoming2 ==
  BugPattern("pattern_2", "python", "\\w+\\[\\w+\\](?!\\?)",
             "undefined_access", 4, <<CommitD>>, 2)
Incoming3 ==
  BugPattern("pattern_3", "unknown", "\\w+\\[\\w+\\](?!\\?)",
             "type_error", 5, <<CommitA, CommitA>>, 1)
Incoming4 ==
  BugPattern("pattern_4", "typescript", "\\buser\\.name\\b(?!\\?)",
             "undefined_access", 8, <<>>, 1)
\* a pattern extractPatterns built from three fixes
Incoming5 ==
  BugPattern("pattern_5", "typescript",
             "for\\s*\\([^;]*;\\s*\\w+\\s*<=\\s*\\w+\\.length",
             "off_by_one_loop", 9, <<CommitA, CommitD, CommitA>>, 3)

IncomingPatterns == {Incoming1, Incoming2, Incoming3, Incoming4}

\* the batches of at most MaxBatch patterns out of a set
BatchesOf(S) == UNION {[1..n -> S] : n \in 0..MaxBatch}

Batches == BatchesOf(IncomingPatterns)

\* what something other than the extension can leave at the store path
ForeignFiles ==
  { NoFile, UnreadableFile, File("empty", JSNull), File("garbage", JSNull),
    File("json", JSNull), File("json", JSEmptyObject) }

NoArg == "-"
NoPattern == BugPattern(NoArg, NoArg, NoArg, NoArg, 0, <<>>, 0)

Call(op, sha, language, filePath, pattern) ==
  [ op |-> op, sha |-> sha, language |-> language, filePath |-> filePath,
    pattern |-> pattern ]

Ret(raised, write, patterns, score) ==
  [raised |-> raised, write |-> write, patterns |-> patterns, score |-> score]

Returned == Ret(FALSE, "none", <<>>, 0)

-----------------------------------------------------------------------------
(* CodeScanner *)

ScanResult(lineNumber, riskScore, patternId, commitShas, shortReason, category) ==
  [ lineNumber |-> lineNumber, riskScore |-> riskScore, patternId |-> patternId,
    commitShas |-> commitShas, shortReason |-> shortReason,
    category |-> category ]

\* the string with the given characters
RECURSIVE Str(_)
Str(chars) == IF chars = <<>> THEN "" ELSE Head(chars) \o Str(Tail(chars))

baseTemplates(category) ==
  CASE category = "null_check_missing" -> "Missing null/undefined check"
    [] category = "off_by_one_loop" -> "Off-by-one error in loop boundary"
    [] category = "missing_await" -> "Missing await keyword for async operation"
    [] category = "undefined_access" -> "Unsafe array/object access"
    [] category = "race_condition" -> "Potential race condition"
    [] category = "memory_leak" -> "Possible memory leak"
    [] category = "type_error" -> "Type mismatch error"
    [] category = "logic_error" -> "Logic error"
    [] OTHER -> "Suspicious pattern"

generateReason(pattern) ==
  LET baseReason == baseTemplates(pattern.category)
  IN  IF Len(pattern.commits) > 0
      THEN LET file == pattern.commits[1].file
               last == Str(LastSegment(Chars(file)))
               fileName == IF last = "" THEN file ELSE last
           IN  IF pattern.occurrence_count > 1
               THEN baseReason \o " (found " \o ToString(pattern.occurrence_count)
                      \o "x in history)"
               ELSE baseReason \o " in " \o fileName
      ELSE baseReason

\* new RegExp(pattern.regex, 'gi') and line.match(regex) inside the try:
\* "error" when the constructor throws, else whether match is not null
tryMatch(regex, line) ==
  LET compiled == RegExp(regex, TRUE)
  IN  IF ~compiled.ok THEN "error"
      ELSE IF Match(Chars(line), compiled).ok THEN "match" ELSE "null"

\* the lines of the documents scanned
LineLoop == "for (let i = 0; i <= arr.length; i++) {"
LineIndex == "return items[idx];"
LinePlain == "const total = 0;"
LineTexts == {LineLoop, LineIndex, LinePlain}

\* a regex source that new RegExp rejects: it reaches the repository
\* through the store file or a caller of addPatterns, not the extractor
MalformedRegex == "("

\* tryMatch for the stored regex sources and the lines of the model,
\* computed once
MatchTable ==
  [regex \in Regexes \cup {MalformedRegex} |->
     [line \in LineTexts |-> tryMatch(regex, line)]]

matchLine(regex, line) ==
  IF regex \in DOMAIN MatchTable /\ line \in DOMAIN MatchTable[regex]
  THEN MatchTable[regex][line]
  ELSE tryMatch(regex, line)

scanLine_noCatch(m, line, lineNumber, language, filePath) ==
  IF ~HasPatterns(m) THEN [raised |-> TRUE, results |-> <<>>]
  ELSE
    LET Results(hits) ==
          [ k \in 1..Len(hits) |->
              ScanResult(lineNumber,
                         calculateRiskScore(hits[k], filePath, getPatterns(m)),
                         hits[k].id,
                         [c \in 1..Len(hits[k].commits) |->
                            hits[k].commits[c].sha],
                         generateReason(hits[k]),
                         hits[k].category) ]
        Matched(outcomes) ==
          SelectSeq([k \in DOMAIN outcomes |-> k],
                    LAMBDA k : outcomes[k].match = "match")
        Hits(outcomes) ==
          [j \in DOMAIN Matched(outcomes) |->
             outcomes[Matched(outcomes)[j]].pattern]
        Tried(outcomes) ==
          IF \E k \in DOMAIN outcomes : outcomes[k].match = "error"
          THEN [raised |-> TRUE, results |-> <<>>]
          ELSE [raised |-> FALSE, results |-> Results(Hits(outcomes))]
        Over(patterns) ==
          Tried([k \in DOMAIN patterns |->
                   [ pattern |-> patterns[k],
                     match |-> matchLine(patterns[k].regex, line) ]])
    IN  Over(getPatternsByLanguage(m, language))

\* scanLine: a TypeError when memory has no patterns; a pattern whose regex
\* does not compile is skipped by the catch
scanLine(m, line, lineNumber, language, filePath) ==
  IF ~HasPatterns(m) THEN [raised |-> TRUE, results |-> <<>>]
  ELSE
    LET Results(hits) ==
          [ k \in 1..Len(hits) |->
              ScanResult(lineNumber,
                         calculateRiskScore(hits[k], filePath, getPatterns(m)),
                         hits[k].id,
                         [c \in 1..Len(hits[k].commits) |->
                            hits[k].commits[c].sha],
                         generateReason(hits[k]),
                         hits[k].category) ]
        Matched(outcomes) ==
          SelectSeq([k \in DOMAIN outcomes |-> k],
                    LAMBDA k : outcomes[k].match = "match")
        Hits(outcomes) ==
          [j \in DOMAIN Matched(outcomes) |->
             outcomes[Matched(outcomes)[j]].pattern]
        Tried(patterns) ==
          [ raised |-> FALSE,
            results |->
              Results(Hits([k \in DOMAIN patterns |->
                              [ pattern |-> patterns[k],
                                match |-> matchLine(patterns[k].regex, line) ]])) ]
    IN  Tried(getPatternsByLanguage(m, language))

\* the loop of scanLines from lines[i] (JavaScript index i - 1) on
RECURSIVE scanLinesFrom(_, _, _, _, _, _)
scanLinesFrom(m, lines, i, startLineNumber, language, filePath) ==
  IF i > Len(lines) THEN [raised |-> FALSE, results |-> <<>>]
  ELSE
    LET Rest(lineResults) ==
          IF lineResults.raised THEN [raised |-> TRUE, results |-> <<>>]
          ELSE LET After(rest) ==
                     IF rest.raised THEN rest
                     ELSE [ raised |-> FALSE,
                            results |-> lineResults.results \o rest.results ]
               IN  After(scanLinesFrom(m, lines, i + 1, startLineNumber,
                                       language, filePath))
    IN  Rest(scanLine(m, lines[i], startLineNumber + (i - 1), language, filePath))

scanLines_fromOne(m, lines, startLineNumber, language, filePath) ==
  LET Done(r) == [raised |-> r.raised, results |-> r.results, memory |-> m]
  IN  Done(scanLinesFrom(m, lines, 1, startLineNumber + 1, language, filePath))

scanLines_countsHits(m, lines, startLineNumber, language, filePath) ==
  LET Done(r) ==
        LET Hit(p) == \E k \in DOMAIN r.results : r.results[k].patternId = p.id
        IN  [ raised |-> r.raised, results |-> r.results,
              memory |->
                IF ~HasPatterns(m) THEN m
                ELSE [m EXCEPT !.patterns =
                        [k \in DOMAIN @ |->
                           IF Hit(@[k])
                           THEN [@[k] EXCEPT !.occurrence_count = @ + 1]
                           ELSE @[k]]] ]
  IN  Done(scanLinesFrom(m, lines, 1, startLineNumber, language, filePath))

\* scanLines, with the memory it leaves: the scan reads the repository
\* and assigns nothing in it
scanLines(m, lines, startLineNumber, language, filePath) ==
  LET Done(r) == [raised |-> r.raised, results |-> r.results, memory |-> m]
  IN  Done(scanLinesFrom(m, lines, 1, startLineNumber, language, filePath))

\* scanDocument's sensitivity filter over the results of a scan
filterResults(results, sensitivity) ==
  SelectSeq(results,
            LAMBDA r : adjustForSensitivity(r.riskScore, sensitivity) > 0)

-----------------------------------------------------------------------------
(* PatternExtractor: the detectors.  A detector returns NoResult for null. *)

includes(line, text) == Includes(Chars(line), Chars(text))

\* line.match(/source/) of a detector: whether there is a match, and the
\* texts match[1], match[2], ... of its capturing groups
match(line, source) ==
  LET In(s, regex) ==
        LET Found(m) ==
              [ ok |-> m.ok,
                group |->
                  IF m.ok
                  THEN [n \in 1..Cardinality({k \in DOMAIN regex.atoms :
                                                regex.atoms[k].t = "("}) |->
                          Str(Group(s, regex, m, n))]
                  ELSE <<>> ]
        IN  Found(Match(s, regex))
  IN  In(Chars(line), RegExp(source, FALSE))

NoResult == [fired |-> FALSE, regex |-> "", category |-> "", riskBase |-> 0]

Result(regex, category, riskBase) ==
  [fired |-> TRUE, regex |-> regex, category |-> category, riskBase |-> riskBase]

\* detectNullCheck without the test that a null check was added
detectNullCheck_anyDot(buggyLine, fixedLine, language) ==
  LET Found(m) ==
        IF m.ok
        THEN Result("\\b" \o m.group[1] \o "\\." \o m.group[2] \o "\\b(?!\\?)",
                    "null_check_missing", 8)
        ELSE NoResult
  IN  IF includes(buggyLine, ".")
      THEN Found(match(buggyLine, "(\\w+)\\.(\\w+)"))
      ELSE NoResult

detectNullCheck(buggyLine, fixedLine, language) ==
  LET hasNullCheckAdded ==
        \/ includes(fixedLine, "?.") /\ ~includes(buggyLine, "?.")
        \/ includes(fixedLine, "&&") /\ ~includes(buggyLine, "&&")
        \/ includes(fixedLine, "if") /\ includes(fixedLine, "null")
        \/ includes(fixedLine, "if") /\ includes(fixedLine, "undefined")
      Found(m) ==
        IF m.ok
        THEN Result("\\b" \o m.group[1] \o "\\." \o m.group[2] \o "\\b(?!\\?)",
                    "null_check_missing", 8)
        ELSE NoResult
  IN  IF hasNullCheckAdded /\ includes(buggyLine, ".")
      THEN Found(match(buggyLine, "(\\w+)\\.(\\w+)"))
      ELSE NoResult

detectOffByOneLoop(buggyLine, fixedLine, language) ==
  IF /\ includes(buggyLine, "<=")
     /\ includes(fixedLine, "<")
     /\ ~includes(fixedLine, "<=")
     /\ \/ match(buggyLine, "for\\s*\\([^;]*;\\s*\\w+\\s*<=\\s*.*\\.length").ok
        \/ match(buggyLine, "for\\s*\\([^;]*;\\s*\\w+\\s*<=\\s*\\w+").ok
  THEN Result("for\\s*\\([^;]*;\\s*\\w+\\s*<=\\s*\\w+\\.length",
              "off_by_one_loop", 9)
  ELSE NoResult

detectMissingAwait(buggyLine, fixedLine, language) ==
  LET Found(m) ==
        IF m.ok
        THEN Result("(?<!await\\s+)\\b" \o m.group[1] \o "\\s*\\(",
                    "missing_await", 7)
        ELSE NoResult
  IN  IF /\ language \in {"typescript", "javascript"}
         /\ includes(fixedLine, "await")
         /\ ~includes(buggyLine, "await")
      THEN Found(match(buggyLine, "(\\w+)\\s*\\("))
      ELSE NoResult

detectUndefinedAccess(buggyLine, fixedLine, language) ==
  IF /\ match(buggyLine, "\\[\\w+\\]").ok
     /\ includes(fixedLine, "?.[") \/ includes(fixedLine, "&&")
  THEN Result("\\w+\\[\\w+\\](?!\\?)", "undefined_access", 7)
  ELSE NoResult

detectTypeError(buggyLine, fixedLine, language) ==
  IF /\ language \in {"typescript", "javascript"}
     /\ includes(fixedLine, " as ") \/ includes(fixedLine, "typeof")
  THEN Result("\\w+\\s*=\\s*\\w+(?!\\s+as\\s+)", "type_error", 5)
  ELSE NoResult

detectLooseEquality(buggyLine, fixedLine, language) ==
  LET Found(eqMatch, neMatch) ==
        IF eqMatch.ok
        THEN Result("\\b" \o eqMatch.group[1] \o "\\s*==\\s*"
                      \o eqMatch.group[2] \o "\\b",
                    "loose_equality", 5)
        ELSE IF neMatch.ok
        THEN Result("\\b" \o neMatch.group[1] \o "\\s*!=\\s*"
                      \o neMatch.group[2] \o "\\b",
                    "loose_equality", 5)
        ELSE NoResult
  IN  IF \/ /\ includes(buggyLine, "==")
            /\ ~includes(buggyLine, "===")
            /\ includes(fixedLine, "===")
         \/ /\ includes(buggyLine, "!=")
            /\ ~includes(buggyLine, "!==")
            /\ includes(fixedLine, "!==")
      THEN Found(match(buggyLine, "(\\w+)\\s*==\\s*(\\w+)"),
                 match(buggyLine, "(\\w+)\\s*!=\\s*(\\w+)"))
      ELSE NoResult

detectMissingErrorHandling(buggyLine, fixedLine, language) ==
  IF /\ includes(fixedLine, "try") \/ includes(fixedLine, "catch")
     /\ ~includes(buggyLine, "try")
     /\ ~includes(buggyLine, "catch")
  THEN \* parseMatch, then jsonMatch, then fetchMatch
       IF match(buggyLine, "JSON\\.parse\\s*\\([^)]*\\)").ok
       THEN Result("JSON\\.parse\\s*\\([^)]*\\)", "missing_error_handling", 7)
       ELSE IF match(buggyLine, "\\.json\\s*\\(").ok
       THEN Result("\\.json\\s*\\(\\s*\\)", "missing_error_handling", 7)
       ELSE IF match(buggyLine, "fetch\\s*\\([^)]*\\)").ok
       THEN Result("fetch\\s*\\([^)]+\\)", "missing_error_handling", 7)
       ELSE NoResult
  ELSE NoResult

detectMemoryLeak(buggyLine, fixedLine, language) ==
  IF \/ includes(fixedLine, "return") /\ includes(fixedLine, "()")
     \/ includes(fixedLine, "clearInterval")
     \/ includes(fixedLine, "clearTimeout")
     \/ includes(fixedLine, ".close()")
     \/ includes(fixedLine, "unsubscribe")
  THEN IF /\ includes(buggyLine, "setInterval")
          /\ ~includes(buggyLine, "const")
          /\ ~includes(buggyLine, "let")
       THEN Result("setInterval\\s*\\([^)]+\\)[^;]*;(?!.*const|.*let)",
                   "memory_leak", 6)
       ELSE IF /\ includes(buggyLine, ".watch(")
               /\ ~includes(buggyLine, "const")
               /\ ~includes(buggyLine, "let")
       THEN Result("\\.watch\\s*\\([^)]+\\)[^;]*;(?!.*const|.*let)",
                   "memory_leak", 6)
       ELSE IF includes(buggyLine, ".push(") /\ includes(buggyLine, "listeners")
       THEN Result("\\.push\\s*\\(\\s*callback\\s*\\)\\s*;(?!.*return)",
                   "memory_leak", 6)
       ELSE NoResult
  ELSE NoResult

detectUnhandledPromise(buggyLine, fixedLine, language) ==
  IF includes(fixedLine, ".catch") /\ ~includes(buggyLine, ".catch")
  THEN Result("\\.\\s*then\\s*\\([^)]*\\)(?!\\s*\\.\\s*catch)",
              "unhandled_promise", 6)
  ELSE NoResult

detectVarScoping(buggyLine, fixedLine, language) ==
  IF /\ includes(buggyLine, "var ")
     /\ includes(fixedLine, "let ") \/ includes(fixedLine, "const ")
  THEN Result("\\bvar\\s+\\w+", "var_scoping", 4)
  ELSE NoResult

detectRaceCondition(buggyLine, fixedLine, language) ==
  LET FoundState(m) ==
        IF m.ok
        THEN Result("this\\.state\\[" \o m.group[1] \o "\\]\\s*=",
                    "race_condition", 7)
        ELSE NoResult
      FoundProperty(m) ==
        IF m.ok
        THEN Result("this\\." \o m.group[1]
                      \o "\\s*=\\s*[^;]+;\\s*\\/\\/.*(?:race|concurrent|update)",
                    "race_condition", 7)
        ELSE NoResult
  IN  IF /\ \/ includes(fixedLine, "lock")
            \/ includes(fixedLine, "mutex")
            \/ includes(fixedLine, "while")
         /\ ~includes(buggyLine, "lock")
         /\ ~includes(buggyLine, "mutex")
         /\ ~includes(buggyLine, "while")
      THEN IF includes(buggyLine, "this.state[") /\ includes(buggyLine, "=")
           THEN FoundState(match(buggyLine, "this\\.state\\[(\\w+)\\]"))
           ELSE IF /\ includes(buggyLine, "this.")
                   /\ includes(buggyLine, "=")
                   /\ includes(buggyLine, "//")
           THEN FoundProperty(match(buggyLine, "this\\.(\\w+)\\s*="))
           ELSE NoResult
      ELSE NoResult

\* the array detectors of analyzeBugPattern, by index
NumDetectors == 11

detector(k, buggyLine, fixedLine, language) ==
  CASE k = 1 -> detectNullCheck(buggyLine, fixedLine, language)
    [] k = 2 -> detectOffByOneLoop(buggyLine, fixedLine, language)
    [] k = 3 -> detectMissingAwait(buggyLine, fixedLine, language)
    [] k = 4 -> detectUndefinedAccess(buggyLine, fixedLine, language)
    [] k = 5 -> detectTypeError(buggyLine, fixedLine, language)
    [] k = 6 -> detectLooseEquality(buggyLine, fixedLine, language)
    [] k = 7 -> detectMissingErrorHandling(buggyLine, fixedLine, language)
    [] k = 8 -> detectMemoryLeak(buggyLine, fixedLine, language)
    [] k = 9 -> detectUnhandledPromise(buggyLine, fixedLine, language)
    [] k = 10 -> detectVarScoping(buggyLine, fixedLine, language)
    [] k = 11 -> detectRaceCondition(buggyLine, fixedLine, language)

\* the loop over detectors: the index and the result of the first detector
\* from k on that returns a result, index 0 when none does
RECURSIVE firstResult(_, _, _, _)
firstResult(k, buggyLine, fixedLine, language) ==
  IF k > NumDetectors THEN [k |-> 0, result |-> NoResult]
  ELSE LET Tried(result) ==
             IF result.fired THEN [k |-> k, result |-> result]
             ELSE firstResult(k + 1, buggyLine, fixedLine, language)
       IN  Tried(detector(k, buggyLine, fixedLine, language))

-----------------------------------------------------------------------------
(* PatternExtractor: analyzeBugPattern and extractPatternsFromDiff *)

startsWith(line, prefix) ==
  LET Starts(chars, with) ==
        Len(with) <= Len(chars) /\ SubSeq(chars, 1, Len(with)) = with
  IN  Starts(Chars(line), Chars(prefix))

RECURSIVE trimStart(_)
trimStart(chars) ==
  IF chars # <<>> /\ Head(chars) \in WhiteSpace THEN trimStart(Tail(chars))
  ELSE chars

RECURSIVE trimEnd(_)
trimEnd(chars) ==
  IF chars # <<>> /\ chars[Len(chars)] \in WhiteSpace
  THEN trimEnd(SubSeq(chars, 1, Len(chars) - 1))
  ELSE chars

\* String.prototype.trim
trim(line) == Str(trimEnd(trimStart(Chars(line))))

\* the pieces of chars between occurrences of the one-character separator
RECURSIVE splitChars(_, _)
splitChars(chars, separator) ==
  IF \E i \in DOMAIN chars : chars[i] = separator
  THEN LET i == CHOOSE k \in DOMAIN chars :
                  chars[k] = separator /\ \A j \in 1..(k - 1) : chars[j] # separator
       IN  <<Str(SubSeq(chars, 1, i - 1))>>
             \o splitChars(SubSeq(chars, i + 1, Len(chars)), separator)
  ELSE <<Str(chars)>>

\* String.prototype.split with a separator of one character
split(text, separator) == splitChars(Chars(text), separator)

\* parseInt(digits, 10) of a run of decimal digits
RECURSIVE parseInt(_)
parseInt(digits) ==
  IF digits = "" THEN 0
  ELSE 10 * parseInt(SubSeq(digits, 1, Len(digits) - 1))
         + (CHOOSE d \in 0..9 :
              SubSeq("0123456789", d + 1, d + 1)
                = SubSeq(digits, Len(digits), Len(digits)))

\* filename.split('.').pop()?.toLowerCase(), then the language map
detectLanguage(filename) ==
  LET Language(extension) ==
        CASE extension \in {"ts", "tsx"} -> "typescript"
          [] extension \in {"js", "jsx"} -> "javascript"
          [] extension = "py" -> "python"
          [] extension = "java" -> "java"
          [] extension = "cpp" -> "cpp"
          [] extension = "c" -> "c"
          [] extension = "go" -> "go"
          [] extension = "rs" -> "rust"
          [] extension = "rb" -> "ruby"
          [] extension = "php" -> "php"
          [] OTHER -> "unknown"
      Lower(last) == Str([i \in DOMAIN last |-> ToLower(last[i])])
      Pop(pieces) == Lower(Chars(pieces[Len(pieces)]))
  IN  Language(Pop(split(filename, ".")))

\* the part of a GitHubCommit and of a GitHubFile that the extractor reads
GitHubCommit(sha, message) == [sha |-> sha, message |-> message]
GitHubFile(filename, patch) == [filename |-> filename, patch |-> patch]

\* generatePatternId: a fresh identifier; the n-th identifier made while
\* one file is analysed stands for the time and the random digits
generatePatternId(n) == "pattern_" \o ToString(n)

\* the BugPattern that analyzeBugPattern builds from a detector's result
ExtractedPattern(id, language, result, commit, filename, lineNumber, buggyLine, fixedLine) ==
  [ id |-> id, language |-> language, regex |-> result.regex,
    category |-> result.category, risk_base |-> result.riskBase,
    commits |-> << CommitReference(commit.sha, filename, lineNumber,
                                   split(commit.message, "\n")[1]) >>,
    occurrence_count |-> 1,
    buggyExample |-> buggyLine, fixedExample |-> fixedLine ]

NoBugPattern == [found |-> FALSE]

\* the lines analysed in the model, after trim
PairBuggyLines ==
  { "for (let i = 0; i <= arr.length; i++) {",
    "return user.items[idx];",
    "return items[idx];",
    "const data = fetchData(url);",
    "var ok = a == b;",
    "fetch(url).then(save);",
    "load().then(save);",
    "setInterval(tick, 1000);",
    "this.state[key] = value;",
    "var n = 1;",
    "if (user.name != null) {",
    "if (user.name !== null) {",
    "const n = x as number;",
    "// old note",
    "" }

PairFixedLines ==
  { "for (let i = 0; i < arr.length; i++) {",
    "for (let i = 0; arr && i < arr.length; i++) {",
    "return user?.items?.[idx];",
    "const data = await fetchData(url) as Data;",
    "const ok = a === b;",
    "fetch(url).then(save).catch(report);",
    "const id = setInterval(tick, 1000); return () => clearInterval(id);",
    "lock(); this.state[key] = value;",
    "let n = 1;",
    "if (user.name !== null) {",
    "const n = x as number;",
    "// new note",
    "" }

PairLanguages == {"typescript", "python", "unknown"}

\* firstResult for the lines above, computed once
FirstResultTable ==
  [buggyLine \in PairBuggyLines |->
     [fixedLine \in PairFixedLines |->
        [language \in PairLanguages |->
           firstResult(1, buggyLine, fixedLine, language)]]]

detect(buggyLine, fixedLine, language) ==
  IF /\ buggyLine \in PairBuggyLines
     /\ fixedLine \in PairFixedLines
     /\ language \in PairLanguages
  THEN FirstResultTable[buggyLine][fixedLine][language]
  ELSE firstResult(1, buggyLine, fixedLine, language)

\* analyzeBugPattern with a loop that keeps the last result
analyzeBugPattern_lastWins(buggyLine, fixedLine, language, commit, filename, lineNumber, n) ==
  LET fired == {k \in 1..NumDetectors :
                  detector(k, buggyLine, fixedLine, language).fired}
  IN  IF trim(buggyLine) = "" \/ trim(fixedLine) = ""
      THEN NoBugPattern
      ELSE IF /\ startsWith(trim(buggyLine), "//")
              /\ startsWith(trim(fixedLine), "//")
      THEN NoBugPattern
      ELSE IF fired = {} THEN NoBugPattern
      ELSE [ found |-> TRUE,
             pattern |-> ExtractedPattern(generatePatternId(n), language,
                           detector(CHOOSE k \in fired : \A j \in fired : j <= k,
                                    buggyLine, fixedLine, language),
                           commit, filename, lineNumber, buggyLine, fixedLine) ]

\* analyzeBugPattern; n numbers the identifier it would generate
analyzeBugPattern(buggyLine, fixedLine, language, commit, filename, lineNumber, n) ==
  IF trim(buggyLine) = "" \/ trim(fixedLine) = ""
  THEN NoBugPattern
  ELSE IF /\ startsWith(trim(buggyLine), "//")
          /\ startsWith(trim(fixedLine), "//")
  THEN NoBugPattern
  ELSE LET Built(r) ==
             IF r.k = 0 THEN NoBugPattern
             ELSE [ found |-> TRUE,
                    pattern |-> ExtractedPattern(generatePatternId(n), language,
                                  r.result, commit, filename, lineNumber,
                                  buggyLine, fixedLine) ]
       IN  Built(detect(buggyLine, fixedLine, language))

\* the variables of the loop of extractPatternsFromDiff; calls lists the
\* calls of analyzeBugPattern: the index of the patch line at which each
\* was made, its arguments and what it returned
LoopState(lineNumber, inRemovalBlock, removedLines, patterns, calls) ==
  [ lineNumber |-> lineNumber, inRemovalBlock |-> inRemovalBlock,
    removedLines |-> removedLines, patterns |-> patterns, calls |-> calls ]

AnalyzeCallAt(at, buggyLine, fixedLine, lineNumber, analysed) ==
  [ at |-> at, buggyLine |-> buggyLine, fixedLine |-> fixedLine,
    lineNumber |-> lineNumber, analysed |-> analysed ]

\* line.substring(1).trim()
substring1trim(line) == trim(SubSeq(line, 2, Len(line)))

\* the loop body with a cursor that removed lines advance as well
diffLine_countsRemoved(st, line, at, language, commit, filename) ==
  IF startsWith(line, "@@")
  THEN \* the hunk header: continue
       LET Header(m) ==
             IF m.ok THEN [st EXCEPT !.lineNumber = parseInt(m.group[1])]
             ELSE st
       IN  Header(match(line, "@@ -(\\d+)"))
  ELSE IF startsWith(line, "-") /\ ~startsWith(line, "---")
  THEN [st EXCEPT !.inRemovalBlock = TRUE,
                  !.removedLines = Append(@, substring1trim(line)),
                  !.lineNumber = @ + 1]
  ELSE IF startsWith(line, "+") /\ ~startsWith(line, "+++")
  THEN IF st.inRemovalBlock /\ Len(st.removedLines) > 0
       THEN LET Paired(buggyLine, fixedLine) ==
                  LET Analysed(pattern) ==
                        [st EXCEPT
                           !.patterns = IF pattern.found
                                        THEN Append(@, pattern.pattern)
                                        ELSE @,
                           !.calls = Append(@, AnalyzeCallAt(at, buggyLine,
                                                 fixedLine, st.lineNumber,
                                                 pattern)),
                           !.inRemovalBlock = FALSE,
                           !.lineNumber = @ + 1]
                  IN  Analysed(analyzeBugPattern(buggyLine, fixedLine, language,
                                 commit, filename, st.lineNumber,
                                 Len(st.patterns) + 1))
            IN  Paired(st.removedLines[Len(st.removedLines)],
                       substring1trim(line))
       ELSE [st EXCEPT !.inRemovalBlock = FALSE, !.lineNumber = @ + 1]
  ELSE [st EXCEPT !.inRemovalBlock = FALSE,
                  !.lineNumber = IF ~startsWith(line, "\\") THEN @ + 1 ELSE @]

\* the body of the loop over the lines of the patch, for the line at index
\* `at`
diffLine(st, line, at, language, commit, filename) ==
  IF startsWith(line, "@@")
  THEN \* the hunk header: continue
       LET Header(m) ==
             IF m.ok THEN [st EXCEPT !.lineNumber = parseInt(m.group[1])]
             ELSE st
       IN  Header(match(line, "@@ -(\\d+)"))
  ELSE IF startsWith(line, "-") /\ ~startsWith(line, "---")
  THEN [st EXCEPT !.inRemovalBlock = TRUE,
                  !.removedLines = Append(@, substring1trim(line))]
  ELSE IF startsWith(line, "+") /\ ~startsWith(line, "+++")
  THEN IF st.inRemovalBlock /\ Len(st.removedLines) > 0
       THEN LET Paired(buggyLine, fixedLine) ==
                  LET Analysed(pattern) ==
                        [st EXCEPT
                           !.patterns = IF pattern.found
                                        THEN Append(@, pattern.pattern)
                                        ELSE @,
                           !.calls = Append(@, AnalyzeCallAt(at, buggyLine,
                                                 fixedLine, st.lineNumber,
                                                 pattern)),
                           !.inRemovalBlock = FALSE,
                           !.lineNumber = @ + 1]
                  IN  Analysed(analyzeBugPattern(buggyLine, fixedLine, language,
                                 commit, filename, st.lineNumber,
                                 Len(st.patterns) + 1))
            IN  Paired(st.removedLines[Len(st.removedLines)],
                       substring1trim(line))
       ELSE [st EXCEPT !.inRemovalBlock = FALSE, !.lineNumber = @ + 1]
  ELSE [st EXCEPT !.inRemovalBlock = FALSE,
                  !.lineNumber = IF ~startsWith(line, "\\") THEN @ + 1 ELSE @]

RECURSIVE diffLoop(_, _, _, _, _, _)
diffLoop(st, lines, at, language, commit, filename) ==
  IF at > Len(lines) THEN st
  ELSE diffLoop(CHOOSE next \in {diffLine(st, lines[at], at, language, commit,
                                          filename)} : TRUE,
                lines, at + 1, language, commit, filename)

\* extractPatternsFromDiff: the loop variables when the loop ends; the
\* method returns their field patterns
extractPatternsFromDiff(file, commit) ==
  diffLoop(LoopState(0, FALSE, <<>>, <<>>, <<>>), split(file.patch, "\n"), 1,
           detectLanguage(file.filename), commit, file.filename)

-----------------------------------------------------------------------------
(* The pattern repository as a state machine *)

\* extension.ts before activate: isEnabled is true, the rest undefined
NotActivated ==
  [ activated |-> FALSE, patternStore |-> FALSE, codeScanner |-> FALSE,
    decorationManager |-> FALSE, isEnabled |-> TRUE, scanTimeout |-> 0 ]

\* no editor host: the engine is used on its own
NoWindow ==
  [ workspaceFolders |-> FALSE, configuration |-> <<>>, activeTextEditor |-> 0,
    text |-> <<>>, decorations |-> <<>>, timers |-> {} ]

\* a fresh workspace: no store file, and the constructor has run
Init ==
  /\ disk = NoFile
  /\ memory = load(NoFile, TimeLoaded)
  /\ ext = NotActivated
  /\ vscode = NoWindow
  /\ call = Call("constructor", NoArg, NoArg, NoArg, NoPattern)
  /\ ret = Returned

\* new PatternStore(workspacePath): the extension is activated or
\* initialised again on the same workspace
Construct ==
  /\ memory' = load(disk, TimeLoaded)
  /\ UNCHANGED host
  /\ call' = Call("constructor", NoArg, NoArg, NoArg, NoPattern)
  /\ ret' = Returned
  /\ UNCHANGED disk

\* the outcome r of a handler is bound through a one-element set, so that
\* it is computed once for the step
Save(outcomes) ==
  \E wr \in outcomes :
    \E r \in {save(memory, disk, TimeSaved, wr)} :
        /\ memory' = r.memory
        /\ disk' = r.disk
        /\ UNCHANGED host
        /\ call' = Call("save", NoArg, NoArg, NoArg, NoPattern)
        /\ ret' = Ret(r.raised, r.write, <<>>, 0)

AddPatterns(batches, outcomes) ==
  \E batch \in batches, wr \in outcomes :
    \E r \in {addPatterns(memory, disk, batch, TimeSaved, wr)} :
        /\ \A i \in DOMAIN r.memory.patterns :
             r.memory.patterns[i].occurrence_count <= MaxOccurrences
        /\ memory' = r.memory
        /\ disk' = r.disk
        /\ UNCHANGED host
        /\ call' = Call("addPatterns", NoArg, NoArg, NoArg, NoPattern)
        /\ ret' = Ret(r.raised, r.write, <<>>, 0)

UpdateLastScannedSha(outcomes) ==
  \E sha \in Shas, wr \in outcomes :
    \E r \in {updateLastScannedSha(memory, disk, sha, TimeSaved, wr)} :
        /\ memory' = r.memory
        /\ disk' = r.disk
        /\ UNCHANGED host
        /\ call' = Call("updateLastScannedSha", sha, NoArg, NoArg, NoPattern)
        /\ ret' = Ret(r.raised, r.write, <<>>, 0)

Clear(outcomes) ==
  \E wr \in outcomes :
    \E r \in {clear(memory, disk, TimeSaved, wr)} :
        /\ memory' = r.memory
        /\ disk' = r.disk
        /\ UNCHANGED host
        /\ call' = Call("clear", NoArg, NoArg, NoArg, NoPattern)
        /\ ret' = Ret(r.raised, r.write, <<>>, 0)

\* getPatternsByLanguage(language): a TypeError when memory has no patterns
GetPatternsByLanguage ==
  \E language \in QueryLanguages :
    /\ UNCHANGED host
    /\ call' = Call("getPatternsByLanguage", NoArg, language, NoArg, NoPattern)
    /\ ret' = IF HasPatterns(memory)
              THEN Ret(FALSE, "none", getPatternsByLanguage(memory, language), 0)
              ELSE Ret(TRUE, "none", <<>>, 0)
    /\ UNCHANGED <<memory, disk>>

\* the store file is deleted, damaged or replaced from outside
ExternalChange ==
  \E f \in ForeignFiles :
    /\ f # disk
    /\ disk' = f
    /\ UNCHANGED host
    /\ call' = Call("external", NoArg, NoArg, NoArg, NoPattern)
    /\ ret' = Returned
    /\ UNCHANGED memory

\* The repository with its durable store: every write can fail, the file can
\* be damaged from outside, the store can be constructed again.
Next ==
  \/ Construct
  \/ Save(WriteOutcomes)
  \/ AddPatterns(BatchesOf({Incoming1, Incoming2}), WriteOutcomes)
  \/ UpdateLastScannedSha(WriteOutcomes)
  \/ Clear(WriteOutcomes)
  \/ GetPatternsByLanguage
  \/ ExternalChange

Spec == Init /\ [][Next]_vars

\* The repository in memory: merges of every batch, bookmarks and clears.
\* What a write does changes nothing in memory but generated_at, so the
\* writes here succeed.
NextMerge ==
  \/ AddPatterns(Batches, {"ok"})
  \/ UpdateLastScannedSha({"ok"})
  \/ Clear({"ok"})

SpecMerge == Init /\ [][NextMerge]_vars

-----------------------------------------------------------------------------
(* Queries and scores over repository snapshots *)

\* a store constructed on the file that one addPatterns call left
InitSnapshot(batches) ==
  \E batch \in batches :
    /\ disk = addPatterns(load(NoFile, TimeLoaded), NoFile, batch,
                          TimeSaved, "ok").disk
    /\ memory = load(disk, TimeLoaded)
    /\ ext = NotActivated
    /\ vscode = NoWindow
    /\ call = Call("constructor", NoArg, NoArg, NoArg, NoPattern)
    /\ ret = Returned

SpecQuery == InitSnapshot(Batches) /\ [][GetPatternsByLanguage]_vars

\* the patterns scored: any category (or none), whether stored or not
ScoredPatterns ==
  { BugPattern("pattern_0", "typescript", regex, category, risk_base, <<>>, n) :
      regex \in Regexes, category \in BugCategory \cup {""},
      risk_base \in (1 - RiskMargin)..(10 + RiskMargin),
      n \in 1..MaxOccurrences }

\* calculateRiskScore on the repository as it stands, once
CalculateRiskScore ==
  /\ call.op = "constructor"
  /\ \E pattern \in ScoredPatterns, filePath \in FilePaths :
    /\ UNCHANGED host
    /\ call' = Call("calculateRiskScore", NoArg, NoArg, filePath, pattern)
    /\ ret' = Ret(FALSE, "none", <<>>,
                  calculateRiskScore(pattern, filePath, getPatterns(memory)))
    /\ UNCHANGED <<memory, disk>>

SpecScore ==
  InitSnapshot(BatchesOf({Incoming4, Incoming5})) /\ [][CalculateRiskScore]_vars

-----------------------------------------------------------------------------
(* Scans over repository snapshots *)

\* a stored pattern whose regex does not compile
IncomingBad ==
  BugPattern("pattern_6", "unknown", MalformedRegex, "other", 6, <<CommitA>>, 1)

\* the repositories scanned, as the batch that built each
ScanBatches ==
  { <<>>, <<Incoming3>>, <<Incoming5>>, <<Incoming1, Incoming3>>,
    <<Incoming5, Incoming1>>, <<IncomingBad, Incoming3>>,
    <<Incoming5, IncomingBad>>, <<Incoming1, IncomingBad, Incoming3>> }

Documents == UNION {[1..n -> LineTexts] : n \in 0..MaxLines}

Sensitivities == {"low", "medium", "high"}

\* scanLines called on a block of lines that begins at line 5
ScanArgs ==
  { [startLineNumber |-> 5, language |-> "typescript", filePath |-> "src/a.ts"],
    [startLineNumber |-> 5, language |-> "python", filePath |-> ""] }

ScanCall(op, lines, startLineNumber, language, filePath, sensitivity) ==
  [ op |-> op, lines |-> lines, startLineNumber |-> startLineNumber,
    language |-> language, filePath |-> filePath, sensitivity |-> sensitivity ]

ScanRet(raised, results, shown) ==
  [raised |-> raised, results |-> results, shown |-> shown]

ScanLines ==
  \E lines \in Documents, args \in ScanArgs :
    \E r \in {scanLines(memory, lines, args.startLineNumber, args.language,
                        args.filePath)} :
      /\ memory' = r.memory
      /\ UNCHANGED host
      /\ call' = ScanCall("scanLines", lines, args.startLineNumber,
                          args.language, args.filePath, NoArg)
      /\ ret' = ScanRet(r.raised, r.results, <<>>)
      /\ UNCHANGED disk

\* scanDocument: the whole document from line 0, then the sensitivity
\* filter; the results that pass are decorated
ScanDocument ==
  \E lines \in Documents, sensitivity \in Sensitivities :
    \E r \in {scanLines(memory, lines, 0, "typescript", "src/a.ts")} :
      /\ memory' = r.memory
      /\ UNCHANGED host
      /\ call' = ScanCall("scanDocument", lines, 0, "typescript", "src/a.ts",
                          sensitivity)
      /\ ret' = ScanRet(r.raised, r.results,
                        IF r.raised THEN <<>>
                        ELSE filterResults(r.results, sensitivity))
      /\ UNCHANGED disk

NextScan == ScanLines \/ ScanDocument

SpecScan == InitSnapshot(ScanBatches) /\ [][NextScan]_vars

-----------------------------------------------------------------------------
(* Analyses of line pairs *)

\* the commit whose files are analysed
CommitFix == GitHubCommit("sha3", "fix loop bound\n\nsee the issue")

\* file names of three languages
PairFiles == {"src/a.ts", "lib/b.py", "Makefile"}

AnalyzeCall(op, buggyLine, fixedLine, filename) ==
  [op |-> op, buggyLine |-> buggyLine, fixedLine |-> fixedLine,
   filename |-> filename]

AnalyzeRet(r) == [raised |-> FALSE, write |-> "none", analysed |-> r]

\* a pair of lines of a file waits to be analysed
InitAnalyze ==
  \E buggyLine \in PairBuggyLines, fixedLine \in PairFixedLines,
     filename \in PairFiles :
    /\ disk = NoFile
    /\ memory = load(NoFile, TimeLoaded)
    /\ ext = NotActivated
    /\ vscode = NoWindow
    /\ call = AnalyzeCall("pending", buggyLine, fixedLine, filename)
    /\ ret = Returned

\* analyzeBugPattern as extractPatternsFromDiff calls it, at line 10
AnalyzeBugPattern ==
  /\ call.op = "pending"
  /\ \E r \in {analyzeBugPattern(call.buggyLine, call.fixedLine,
                                 detectLanguage(call.filename), CommitFix,
                                 call.filename, 10, 1)} :
       /\ UNCHANGED host
       /\ call' = [call EXCEPT !.op = "analyzeBugPattern"]
       /\ ret' = AnalyzeRet(r)
  /\ UNCHANGED <<memory, disk>>

NextAnalyze == AnalyzeBugPattern

SpecAnalyze == InitAnalyze /\ [][NextAnalyze]_vars

-----------------------------------------------------------------------------
(* Analyses of patches *)

\* lines of a unified diff: two hunk headers, two removed and two added
\* lines, a context line, the no-newline marker and a file marker
HunkA == "@@ -10,2 +12,2 @@"
HunkB == "@@ -20 +23 @@ function sum(arr) {"
RemovedLoop == "-  for (let i = 0; i <= arr.length; i++) {"
AddedLoop == "+  for (let i = 0; i < arr.length; i++) {"
RemovedVar == "-var n = 1;"
AddedLet == "+let n = 1;"
ContextLine == " const total = 0;"
NoNewline == "\\ No newline at end of file"
FileMarker == "--- a/src/a.ts"

PatchLines ==
  { HunkA, HunkB, RemovedLoop, AddedLoop, RemovedVar, AddedLet, ContextLine,
    NoNewline, FileMarker }

\* Array.prototype.join('\n')
RECURSIVE join(_)
join(lines) ==
  IF Len(lines) = 1 THEN lines[1]
  ELSE lines[1] \o "\n" \o join(Tail(lines))

\* the patch texts of at most MaxPatch lines
Patches == {join(lines) : lines \in UNION {[1..n -> PatchLines] : n \in 1..MaxPatch}}

DiffCall(op, file) == [op |-> op, file |-> file]

DiffRet(raised, write, extracted) ==
  [raised |-> raised, write |-> write, extracted |-> extracted]

\* a new repository, and the patch of a file of a bug-fix commit waits to
\* be analysed
InitDiff ==
  \E patch \in Patches :
    /\ disk = NoFile
    /\ memory = load(NoFile, TimeLoaded)
    /\ ext = NotActivated
    /\ vscode = NoWindow
    /\ call = DiffCall("pending", GitHubFile("src/a.ts", patch))
    /\ ret = Returned

ExtractPatternsFromDiff ==
  /\ call.op = "pending"
  /\ \E r \in {extractPatternsFromDiff(call.file, CommitFix)} :
       /\ UNCHANGED host
       /\ call' = [call EXCEPT !.op = "extractPatternsFromDiff"]
       /\ ret' = DiffRet(FALSE, "none", r)
  /\ UNCHANGED <<memory, disk>>

\* patternStore.addPatterns called with the patterns extracted
AddExtracted ==
  /\ call.op = "extractPatternsFromDiff"
  /\ ret.extracted.patterns # <<>>
  /\ \E r \in {addPatterns(memory, disk, ret.extracted.patterns, TimeSaved,
                           "ok")} :
       /\ memory' = r.memory
       /\ disk' = r.disk
       /\ UNCHANGED host
       /\ call' = [call EXCEPT !.op = "addPatterns"]
       /\ ret' = DiffRet(r.raised, r.write, ret.extracted)

NextDiff == ExtractPatternsFromDiff \/ AddExtracted

SpecDiff == InitDiff /\ [][NextDiff]_vars

-----------------------------------------------------------------------------
(* Extractions over commit histories *)

\* a commit with its details: files is a sequence of GitHubFile, and
\* hasFiles is false for a commit whose files are undefined; a file
\* without a patch has the patch ""
DetailedCommit(sha, message, hasFiles, files) ==
  [sha |-> sha, message |-> message, hasFiles |-> hasFiles, files |-> files]

PatchLoop == join(<<HunkA, RemovedLoop, AddedLoop>>)
PatchVarTwice ==
  join(<<HunkA, RemovedVar, AddedLet, HunkB, RemovedVar, AddedLet>>)

\* bug-fix commits with their details: the same loop fix in a TypeScript
\* and in a JavaScript file, a file without a patch, a fix made twice in
\* one file, and a commit whose files are undefined
CommitLoopTs ==
  DetailedCommit("sha3", "fix loop bound\n\nsee the issue", TRUE,
                 <<GitHubFile("src/a.ts", PatchLoop)>>)
CommitLoopJs ==
  DetailedCommit("sha4", "fix loop in b", TRUE,
                 <<GitHubFile("logo.png", ""), GitHubFile("lib/b.js", PatchLoop)>>)
CommitVarTwice ==
  DetailedCommit("sha5", "fix scoping", TRUE,
                 <<GitHubFile("src/a.ts", PatchVarTwice)>>)
CommitNoFiles == DetailedCommit("sha6", "fix typo", FALSE, <<>>)

FixCommits == {CommitLoopTs, CommitLoopJs, CommitVarTwice, CommitNoFiles}

mapUpdate_keepsCount(existing, pattern) ==
  [existing EXCEPT !.commits = @ \o pattern.commits]

\* the branch of extractPatterns for a key the map has
mapUpdate(existing, pattern) ==
  [existing EXCEPT !.occurrence_count = @ + 1,
                   !.commits = @ \o pattern.commits]

\* the loop over filePatterns: patternMap is a sequence in insertion order,
\* keyed by regex and category
RECURSIVE mapLoop(_, _)
mapLoop(patternMap, filePatterns) ==
  IF filePatterns = <<>> THEN patternMap
  ELSE LET pattern == Head(filePatterns)
           at == findIndex(patternMap, pattern)
       IN  mapLoop(IF at >= 1
                   THEN [patternMap EXCEPT ![at] = mapUpdate(@, pattern)]
                   ELSE Append(patternMap, pattern),
                   Tail(filePatterns))

\* the loop over the files of one commit; made counts the identifiers
\* generated so far, so that every pattern of an extraction has its own
RECURSIVE fileLoop(_, _, _, _)
fileLoop(acc, commit, files, at) ==
  IF at > Len(files) THEN acc
  ELSE IF files[at].patch = "" THEN fileLoop(acc, commit, files, at + 1)
  ELSE LET Made(filePatterns) ==
             [ made |-> acc.made + Len(filePatterns),
               patternMap |->
                 mapLoop(acc.patternMap,
                         [k \in DOMAIN filePatterns |->
                            [filePatterns[k] EXCEPT
                               !.id = generatePatternId(acc.made + k)]]) ]
       IN  fileLoop(Made(extractPatternsFromDiff(
                           files[at],
                           GitHubCommit(commit.sha, commit.message)).patterns),
                    commit, files, at + 1)

RECURSIVE commitLoop(_, _)
commitLoop(acc, commits) ==
  IF commits = <<>> THEN acc
  ELSE commitLoop(IF ~Head(commits).hasFiles THEN acc
                  ELSE fileLoop(acc, Head(commits), Head(commits).files, 1),
                  Tail(commits))

\* extractPatterns: Array.from(patternMap.values())
extractPatterns(commits) ==
  commitLoop([made |-> 0, patternMap |-> <<>>], commits).patternMap

\* getStats, on a memory that has a patterns array
RECURSIVE totalOccurrences(_)
totalOccurrences(patterns) ==
  IF patterns = <<>> THEN 0
  ELSE Head(patterns).occurrence_count + totalOccurrences(Tail(patterns))

getStats(m) ==
  [ totalPatterns |-> Len(m.patterns),
    totalOccurrences |-> totalOccurrences(m.patterns),
    categoryCounts |->
      [c \in {m.patterns[i].category : i \in DOMAIN m.patterns} |->
         Cardinality({i \in DOMAIN m.patterns : m.patterns[i].category = c})],
    lastUpdated |-> m.generated_at ]

\* the bug-fix commits of a history, newest first
Histories == UNION {[1..n -> FixCommits] : n \in 0..MaxHistory}

\* extractPatterns for the histories of the model, computed once (joining
\* with the empty function makes the table a finished value)
ExtractTable == [commits \in Histories |-> extractPatterns(commits)] @@ <<>>

ExtractCall(op, commits) == [op |-> op, commits |-> commits]

ExtractRet(raised, write, extracted) ==
  [raised |-> raised, write |-> write, extracted |-> extracted]

\* patternExtractor.extractPatterns(detailedCommits)
ExtractPatterns ==
  \E commits \in Histories :
    /\ UNCHANGED host
    /\ call' = ExtractCall("extractPatterns", commits)
    /\ ret' = ExtractRet(FALSE, "none", ExtractTable[commits])
    /\ UNCHANGED <<memory, disk>>

\* patternStore.addPatterns(patterns) with the patterns just extracted
AddExtractedPatterns ==
  /\ call.op = "extractPatterns"
  /\ \E r \in {addPatterns(memory, disk, ret.extracted, TimeSaved, "ok")} :
       /\ \A i \in DOMAIN r.memory.patterns :
            r.memory.patterns[i].occurrence_count <= MaxStored
       /\ memory' = r.memory
       /\ disk' = r.disk
       /\ UNCHANGED host
       /\ call' = ExtractCall("addPatterns", call.commits)
       /\ ret' = ExtractRet(r.raised, r.write, ret.extracted)

ClearExtracted ==
  \E r \in {clear(memory, disk, TimeSaved, "ok")} :
    /\ memory' = r.memory
    /\ disk' = r.disk
    /\ UNCHANGED host
    /\ call' = ExtractCall("clear", <<>>)
    /\ ret' = ExtractRet(r.raised, r.write, <<>>)

NextExtract == ExtractPatterns \/ AddExtractedPatterns \/ ClearExtracted

\* A repository that starts empty and is fed by the extractor only.
SpecExtract == Init /\ [][NextExtract]_vars

-----------------------------------------------------------------------------
(* extension.ts: the handlers, over the editor host *)

\* the editors of the window and the document each shows; a third document
\* is open in no editor
Editors == {1, 2}
NoEditor == 0
DocumentOf(editor) == IF editor = 1 THEN "src/a.ts" ELSE "lib/b.js"
TextDocuments == {"src/a.ts", "lib/b.js", "notes.md"}
languageId(document) ==
  CASE document = "src/a.ts" -> "typescript"
    [] document = "lib/b.js" -> "javascript"
    [] OTHER -> "markdown"

\* the texts a document can hold, as lines
TextPlain == <<LinePlain>>
TextLoop == <<LinePlain, LineLoop>>
Texts == {TextPlain, TextLoop}

\* the codeghost settings that the handlers read; sensitivity stays at its
\* default
Configuration(enabled, scanOnSaveOnly) ==
  [enabled |-> enabled, scanOnSaveOnly |-> scanOnSaveOnly,
   sensitivity |-> "medium"]
Configurations == {Configuration(e, s) : e, s \in BOOLEAN}

Window(workspaceFolders, configuration, activeTextEditor, text, decorations, timers) ==
  [ workspaceFolders |-> workspaceFolders, configuration |-> configuration,
    activeTextEditor |-> activeTextEditor, text |-> text,
    decorations |-> decorations, timers |-> timers ]

NoDecorations == [editor \in Editors |-> <<>>]

\* getLanguageForDocument
getLanguageForDocument(document) ==
  LET id == languageId(document)
  IN  CASE id \in {"typescript", "typescriptreact"} -> "typescript"
        [] id \in {"javascript", "javascriptreact"} -> "javascript"
        [] id \in {"python", "java", "cpp", "c", "go", "rust", "ruby", "php"} -> id
        [] OTHER -> "unknown"

\* DecorationManager.getRiskLevel
getRiskLevel(score) == IF score >= 8 THEN 3 ELSE IF score >= 5 THEN 2 ELSE 1

\* what a handler leaves: the module variables, the host, whether it let
\* an exception out, and the editors it scanned
Handled(x, v, raised, scanned) ==
  [ext |-> x, vscode |-> v, raised |-> raised, scanned |-> scanned]

\* scanDocument: clear the editor's decorations, scan every line, filter by
\* sensitivity, apply the decorations.  m is the memory of the scanner's
\* store.
scanDocument(x, v, m, editor) ==
  IF ~x.codeScanner \/ ~x.decorationManager THEN Handled(x, v, FALSE, <<>>)
  ELSE
    LET Applied(r) ==
          IF r.raised
          THEN Handled(x, [v EXCEPT !.decorations[editor] = <<>>], TRUE,
                       <<editor>>)
          ELSE LET Shown(results) ==
                     [k \in DOMAIN results |->
                        [ line |-> results[k].lineNumber,
                          riskLevel |-> getRiskLevel(results[k].riskScore) ]]
               IN  Handled(x,
                           [v EXCEPT !.decorations[editor] =
                              Shown(filterResults(r.results,
                                                  v.configuration.sensitivity))],
                           FALSE, <<editor>>)
    IN  Applied(scanLines(m, v.text[DocumentOf(editor)], 0,
                          getLanguageForDocument(DocumentOf(editor)),
                          DocumentOf(editor)))

\* the scan of the active editor that ends initializeExtension and
\* handleInitialize; an exception is caught by the handler's try
scanActiveEditor(x, v, m) ==
  IF v.activeTextEditor # NoEditor /\ x.decorationManager
  THEN LET Caught(h) == Handled(h.ext, h.vscode, FALSE, h.scanned)
       IN  Caught(scanDocument(x, v, m, v.activeTextEditor))
  ELSE Handled(x, v, FALSE, <<>>)

\* activate: the decoration manager, then initializeExtension when a
\* workspace folder is open.  mk is what mkdirSync does in the PatternStore
\* constructor; m is the memory of the store constructed.
activate(x, v, m, mk) ==
  LET started == [x EXCEPT !.activated = TRUE, !.decorationManager = TRUE]
  IN  IF ~v.workspaceFolders \/ mk # "ok" THEN Handled(started, v, FALSE, <<>>)
      ELSE scanActiveEditor([started EXCEPT !.patternStore = TRUE,
                                            !.codeScanner = TRUE,
                                            !.isEnabled = v.configuration.enabled],
                            v, m)

\* setTimeout returns a handle that no pending timer and no kept handle has
FreshTimer(x, v) ==
  CHOOSE id \in 1..(Cardinality(v.timers) + 2) :
    /\ id # x.scanTimeout
    /\ \A t \in v.timers : t.id # id
    /\ \A other \in 1..(id - 1) :
         other = x.scanTimeout \/ \E t \in v.timers : t.id = other

handleDocumentChange_noClear(x, v, document) ==
  IF v.configuration.scanOnSaveOnly THEN Handled(x, v, FALSE, <<>>)
  ELSE LET Started(id) ==
             Handled([x EXCEPT !.scanTimeout = id],
                     [v EXCEPT !.timers =
                        @ \cup {[id |-> id, document |-> document]}],
                     FALSE, <<>>)
       IN  Started(FreshTimer(x, v))

\* handleDocumentChange: clearTimeout(scanTimeout), then setTimeout
handleDocumentChange(x, v, document) ==
  IF v.configuration.scanOnSaveOnly THEN Handled(x, v, FALSE, <<>>)
  ELSE LET Started(id) ==
             Handled([x EXCEPT !.scanTimeout = id],
                     [v EXCEPT !.timers =
                        {t \in @ : t.id # x.scanTimeout}
                          \cup {[id |-> id, document |-> document]}],
                     FALSE, <<>>)
       IN  Started(FreshTimer(x, v))

\* the listener of onDidChangeTextDocument
onDidChangeTextDocument(x, v, document) ==
  IF /\ x.isEnabled /\ x.codeScanner /\ x.decorationManager
     /\ ~v.configuration.scanOnSaveOnly
  THEN handleDocumentChange(x, v, document)
  ELSE Handled(x, v, FALSE, <<>>)

\* the callback of the debounce timer
onTimeout(x, v, m, document) ==
  IF /\ v.activeTextEditor # NoEditor
     /\ DocumentOf(v.activeTextEditor) = document
  THEN scanDocument(x, v, m, v.activeTextEditor)
  ELSE Handled(x, v, FALSE, <<>>)

\* the listener of onDidSaveTextDocument
onDidSaveTextDocument(x, v, m, document) ==
  IF /\ x.isEnabled /\ x.codeScanner /\ x.decorationManager
     /\ v.configuration.scanOnSaveOnly
     /\ \E editor \in Editors : DocumentOf(editor) = document
  THEN scanDocument(x, v, m,
                    CHOOSE editor \in Editors : DocumentOf(editor) = document)
  ELSE Handled(x, v, FALSE, <<>>)

\* the listener of onDidChangeActiveTextEditor
onDidChangeActiveTextEditor(x, v, m, editor) ==
  IF x.isEnabled /\ editor # NoEditor /\ x.codeScanner /\ x.decorationManager
  THEN scanDocument(x, v, m, editor)
  ELSE Handled(x, v, FALSE, <<>>)

\* handleToggleHighlights
handleToggleHighlights(x, v, m) ==
  LET toggled == [x EXCEPT !.isEnabled = ~@]
  IN  IF ~toggled.isEnabled /\ toggled.decorationManager
      THEN Handled(toggled, [v EXCEPT !.decorations = NoDecorations], FALSE, <<>>)
      ELSE IF /\ toggled.isEnabled /\ toggled.codeScanner
              /\ toggled.decorationManager
              /\ v.activeTextEditor # NoEditor
      THEN scanDocument(toggled, v, m, v.activeTextEditor)
      ELSE Handled(toggled, v, FALSE, <<>>)

\* the store part of handleInitialize: a new PatternStore on the workspace,
\* addPatterns with the patterns extracted, updateLastScannedSha with the
\* newest commit when commits were fetched
initializeStore(d, fetched) ==
  LET Marked(added) ==
        IF added.raised \/ fetched.sha = NoArg THEN added
        ELSE updateLastScannedSha(added.memory, added.disk, fetched.sha,
                                  TimeSaved, "ok")
  IN  Marked(addPatterns(load(d, TimeLoaded), d, fetched.patterns, TimeSaved,
                         "ok"))

\* handleInitialize, from the extraction on: stored is what the store part
\* left.  An exception of the store leaves the old scanner in place and is
\* caught.
handleInitialize(x, v, stored) ==
  IF stored.raised THEN Handled([x EXCEPT !.patternStore = TRUE], v, FALSE, <<>>)
  ELSE scanActiveEditor([x EXCEPT !.patternStore = TRUE, !.codeScanner = TRUE],
                        v, stored.memory)

-----------------------------------------------------------------------------
(* The extension as a state machine *)

\* what the fetch and extractPatterns hand to the rest of handleInitialize:
\* the sha of the newest commit (none when no commit was fetched) and the
\* patterns extracted from the bug-fix commits.  The histories are: no
\* commit; one fix of a loop bound in src/a.ts; that fix and a later one of
\* the same loop bound in lib/b.js.  The patterns are the values of
\* extractPatterns on <<CommitLoopTs>> and on <<CommitLoopJs, CommitLoopTs>>.
LoopRegex == "for\\s*\\([^;]*;\\s*\\w+\\s*<=\\s*\\w+\\.length"
LoopTs ==
  ExtractedPattern(generatePatternId(1), "typescript",
                   Result(LoopRegex, "off_by_one_loop", 9),
                   GitHubCommit("sha3", "fix loop bound"), "src/a.ts", 10,
                   "for (let i = 0; i <= arr.length; i++) {",
                   "for (let i = 0; i < arr.length; i++) {")
LoopJs ==
  ExtractedPattern(generatePatternId(1), "javascript",
                   Result(LoopRegex, "off_by_one_loop", 9),
                   GitHubCommit("sha4", "fix loop in b"), "lib/b.js", 10,
                   "for (let i = 0; i <= arr.length; i++) {",
                   "for (let i = 0; i < arr.length; i++) {")
Fetched ==
  { [sha |-> NoArg, patterns |-> <<>>],
    [sha |-> "sha3", patterns |-> <<LoopTs>>],
    [sha |-> "sha4", patterns |-> <<mapUpdate(LoopJs, LoopTs)>>] }

ExtCall(op, document, editor, fetched) ==
  [op |-> op, document |-> document, editor |-> editor, fetched |-> fetched]

NoFetch == [sha |-> NoArg, patterns |-> <<>>]

ExtRet(raised, scanned) == [raised |-> raised, scanned |-> scanned]

\* VS Code has started on a workspace without a store file, and the
\* extension is about to be activated
InitExtension ==
  \E folders \in BOOLEAN, configuration \in Configurations,
     editor \in Editors \cup {NoEditor} :
    /\ disk = NoFile
    /\ memory = JSNull
    /\ ext = NotActivated
    /\ vscode = Window(folders, configuration, editor,
                       [document \in {DocumentOf(e) : e \in Editors} |->
                          IF document = "src/a.ts" THEN TextLoop ELSE TextPlain],
                       NoDecorations, {})
    /\ call = ExtCall("start", NoArg, NoEditor, NoFetch)
    /\ ret = ExtRet(FALSE, <<>>)

Activate ==
  /\ ~ext.activated
  /\ \E mk \in {"ok", "denied"} :
       \E m \in {load(disk, TimeLoaded)} :
         \E h \in {activate(ext, vscode, m, mk)} :
           /\ ext' = h.ext
           /\ vscode' = h.vscode
           /\ memory' = IF h.ext.patternStore THEN m ELSE memory
           /\ call' = ExtCall("activate", NoArg, NoEditor, NoFetch)
           /\ ret' = ExtRet(h.raised, h.scanned)
  /\ UNCHANGED disk

\* the user (or another extension) edits a document
ChangeTextDocument ==
  /\ ext.activated
  /\ \E document \in TextDocuments, text \in Texts :
       \E h \in {onDidChangeTextDocument(
                   ext,
                   IF document \in DOMAIN vscode.text
                   THEN [vscode EXCEPT !.text[document] = text] ELSE vscode,
                   document)} :
         /\ Cardinality(h.vscode.timers) <= MaxTimers
         /\ ext' = h.ext
         /\ vscode' = h.vscode
         /\ call' = ExtCall("changeTextDocument", document, NoEditor, NoFetch)
         /\ ret' = ExtRet(h.raised, h.scanned)
  /\ UNCHANGED <<memory, disk>>

\* a pending timer expires
Timeout ==
  /\ \E t \in vscode.timers :
       \E h \in {onTimeout(ext, [vscode EXCEPT !.timers = @ \ {t}], memory,
                           t.document)} :
         /\ ext' = h.ext
         /\ vscode' = h.vscode
         /\ call' = ExtCall("timeout", t.document, NoEditor, NoFetch)
         /\ ret' = ExtRet(h.raised, h.scanned)
  /\ UNCHANGED <<memory, disk>>

SaveTextDocument ==
  /\ ext.activated
  /\ \E document \in TextDocuments :
       \E h \in {onDidSaveTextDocument(ext, vscode, memory, document)} :
         /\ ext' = h.ext
         /\ vscode' = h.vscode
         /\ call' = ExtCall("saveTextDocument", document, NoEditor, NoFetch)
         /\ ret' = ExtRet(h.raised, h.scanned)
  /\ UNCHANGED <<memory, disk>>

ChangeActiveTextEditor ==
  /\ ext.activated
  /\ \E editor \in Editors \cup {NoEditor} :
       /\ editor # vscode.activeTextEditor
       /\ \E h \in {onDidChangeActiveTextEditor(
                      ext, [vscode EXCEPT !.activeTextEditor = editor],
                      memory, editor)} :
            /\ ext' = h.ext
            /\ vscode' = h.vscode
            /\ call' = ExtCall("changeActiveTextEditor", NoArg, editor, <<>>)
            /\ ret' = ExtRet(h.raised, h.scanned)
  /\ UNCHANGED <<memory, disk>>

\* the user edits the codeghost settings
ChangeConfiguration ==
  /\ ext.activated
  /\ \E configuration \in Configurations :
       /\ configuration # vscode.configuration
       /\ vscode' = [vscode EXCEPT !.configuration = configuration]
       /\ call' = ExtCall("changeConfiguration", NoArg, NoEditor, NoFetch)
       /\ ret' = ExtRet(FALSE, <<>>)
  /\ UNCHANGED <<memory, disk, ext>>

HandleToggleHighlights ==
  /\ ext.activated
  /\ \E h \in {handleToggleHighlights(ext, vscode, memory)} :
       /\ ext' = h.ext
       /\ vscode' = h.vscode
       /\ call' = ExtCall("codeghost.toggleHighlights", NoArg, NoEditor, NoFetch)
       /\ ret' = ExtRet(h.raised, h.scanned)
  /\ UNCHANGED <<memory, disk>>

\* Initialize or Refresh Patterns, with a workspace folder open, a git
\* repository and a source chosen: the commits are fetched, the patterns
\* extracted, stored and the active editor scanned.  A run that ends early
\* (no workspace folder, no git repository, the choice dismissed, no token,
\* a fetch that fails) changes nothing.
HandleInitialize ==
  /\ ext.activated
  /\ vscode.workspaceFolders
  /\ \E command \in {"codeghost.initialize", "codeghost.refreshPatterns"},
        fetched \in Fetched :
       \E stored \in {initializeStore(disk, fetched)} :
         /\ \A i \in DOMAIN getPatterns(stored.memory) :
              stored.memory.patterns[i].occurrence_count <= MaxStored
         /\ \E h \in {handleInitialize(ext, vscode, stored)} :
              /\ ext' = h.ext
              /\ vscode' = h.vscode
              /\ memory' = stored.memory
              /\ disk' = stored.disk
              /\ call' = ExtCall(command, NoArg, NoEditor, fetched)
              /\ ret' = ExtRet(h.raised, h.scanned)

\* the window is reloaded: the extension host starts again with nothing
\* but the files and the settings kept
ReloadWindow ==
  /\ ext.activated
  /\ ext' = NotActivated
  /\ vscode' = [vscode EXCEPT !.decorations = NoDecorations, !.timers = {}]
  /\ memory' = JSNull
  /\ call' = ExtCall("start", NoArg, NoEditor, NoFetch)
  /\ ret' = ExtRet(FALSE, <<>>)
  /\ UNCHANGED disk

NextExtension ==
  \/ Activate
  \/ ChangeTextDocument
  \/ Timeout
  \/ SaveTextDocument
  \/ ChangeActiveTextEditor
  \/ ChangeConfiguration
  \/ HandleToggleHighlights
  \/ HandleInitialize
  \/ ReloadWindow

SpecExtension == InitExtension /\ [][NextExtension]_vars

-----------------------------------------------------------------------------
(* Properties of the pattern repository *)

MutatingOps == {"addPatterns", "updateLastScannedSha", "clear"}

KeyOf(p) == <<p.regex, p.category>>

\* the stored patterns with a key: under C1 at most one
Stored(patterns, key) ==
  LET Hit(p) == KeyOf(p) = key IN SelectSeq(patterns, Hit)

\* the repository that addPatterns(batch), called in the current state,
\* leaves in memory: what the action AddPatterns stores
Merged(batch) ==
  getPatterns(addPatterns(memory, disk, batch, TimeSaved, "ok").memory)

IncomingKeys == {KeyOf(p) : p \in IncomingPatterns}

RECURSIVE SumCounts(_)
SumCounts(patterns) ==
  IF patterns = <<>> THEN 0
  ELSE Head(patterns).occurrence_count + SumCounts(Tail(patterns))

RECURSIVE ConcatCommits(_)
ConcatCommits(patterns) ==
  IF patterns = <<>> THEN <<>>
  ELSE Head(patterns).commits \o ConcatCommits(Tail(patterns))

\* the integer nearest to (a + b) / 2, the upper one of two
RoundedMean(a, b) ==
  CHOOSE m \in (Min(a, b) - 1)..(Max(a, b) + 1) : a + b \in {2 * m - 1, 2 * m}

\* risk after the patterns of `incoming` met a stored risk one after another
RECURSIVE FoldRisk(_, _)
FoldRisk(risk, incoming) ==
  IF incoming = <<>> THEN risk
  ELSE FoldRisk(RoundedMean(risk, Head(incoming).risk_base), Tail(incoming))

\* C1: starting from an empty repository, after any sequence of merges
\* (also of batches that hold a key twice), bookmarks and clears, no two
\* stored patterns have both the same regex and the same category.
C1_NoDuplicateKeys ==
  \A i, j \in DOMAIN getPatterns(memory) :
    ( /\ getPatterns(memory)[i].regex = getPatterns(memory)[j].regex
      /\ getPatterns(memory)[i].category = getPatterns(memory)[j].category )
    => i = j

\* a repository where a key was merged from several patterns and lies
\* beside a pattern with the same regex and another category
C1_Witness ==
  /\ call.op = "addPatterns"
  /\ \E i, j \in DOMAIN getPatterns(memory) :
       /\ getPatterns(memory)[i].regex = getPatterns(memory)[j].regex
       /\ getPatterns(memory)[i].category # getPatterns(memory)[j].category
       /\ getPatterns(memory)[i].occurrence_count = 3

\* C2: in every repository reached by merges, bookmarks and clears, a
\* merge call adds, for every key, the occurrence_counts of all the
\* incoming patterns with that key to the stored count (0 when the key was
\* not stored): the stored count is the sum whatever the order and the
\* grouping into batches.
C2_CountsAdd ==
  \A batch \in Batches :
    \A merged \in {Merged(batch)}, key \in IncomingKeys :
      SumCounts(Stored(merged, key))
        = SumCounts(Stored(getPatterns(memory), key))
          + SumCounts(Stored(batch, key))

\* the key of Incoming1 and Incoming2 holds 3 = 1 + 2 occurrences
C2_Witness ==
  /\ call.op = "addPatterns"
  /\ \E i \in DOMAIN getPatterns(memory) :
       /\ KeyOf(getPatterns(memory)[i]) = KeyOf(Incoming1)
       /\ getPatterns(memory)[i].occurrence_count = 3
       /\ Len(getPatterns(memory)[i].commits) = 2

\* C3: in every repository reached by merges, bookmarks and clears, a
\* merge call appends, for every key, the commits of the incoming
\* patterns with that key, in order and with duplicates kept, after the
\* stored commits.
C3_CommitsAppended ==
  \A batch \in Batches :
    \A merged \in {Merged(batch)}, key \in IncomingKeys :
      ConcatCommits(Stored(merged, key))
        = ConcatCommits(Stored(getPatterns(memory), key))
          \o ConcatCommits(Stored(batch, key))

\* a stored pattern that holds the same commit reference twice after
\* Incoming1 was merged into itself
C3_Witness ==
  /\ call.op = "addPatterns"
  /\ \E i \in DOMAIN getPatterns(memory) :
       /\ KeyOf(getPatterns(memory)[i]) = KeyOf(Incoming1)
       /\ getPatterns(memory)[i].commits = <<CommitA, CommitA>>

C5_QueryByLanguage ==
  call.op = "getPatternsByLanguage" =>
    LET stored == getPatterns(memory)
        wanted == {i \in DOMAIN stored :
                     stored[i].language \in {call.language, "unknown"}}
    IN  /\ ~ret.raised
        /\ Len(ret.patterns) = Cardinality(wanted)
        /\ \E at \in [DOMAIN ret.patterns -> wanted] :
             /\ \A k, l \in DOMAIN ret.patterns : k < l => at[k] < at[l]
             /\ \A k \in DOMAIN ret.patterns : ret.patterns[k] = stored[at[k]]

\* a query for python that finds the wildcard pattern and leaves out a
\* typescript pattern stored before it
C5_Witness ==
  /\ call.op = "getPatternsByLanguage"
  /\ call.language = "python"
  /\ getPatterns(memory) = <<Incoming4, Incoming3>>
  /\ ret.patterns = <<Incoming3>>

-----------------------------------------------------------------------------
(* Properties of the durable store *)

WritingOps == MutatingOps \cup {"save"}

\* the store file holds JSON text that can be read
StoredOnDisk(d) == d.exists /\ d.readable /\ d.kind = "json"

\* the store file is absent, unreadable, empty, unparsable, or parses to
\* something that is not a store with a patterns collection
IsBrokenFile(d) == ~StoredOnDisk(d) \/ ~HasPatterns(d.value)

C7_LoadNeverYieldsBrokenStore ==
  [][/\ call'.op = "constructor" => ~ret'.raised /\ HasPatterns(memory')
     /\ (call'.op = "constructor" /\ IsBrokenFile(disk'))
          => /\ "version" \in memory'.has
             /\ memory'.version = 1
             /\ getPatterns(memory') = <<>>
     /\ ( /\ call.op = "constructor"
          /\ IsBrokenFile(disk)
          /\ call'.op = "getPatternsByLanguage" )
          => ~ret'.raised /\ ret'.patterns = <<>>]_vars

\* C8: when the write of the store file fails, save raises, and so do
\* addPatterns, updateLastScannedSha and clear.
C8_FailedWriteRaises ==
  (call.op \in WritingOps /\ ret.write \in {"denied", "partial"}) => ret.raised

\* a merge whose write was cut off
C8_Witness ==
  /\ call.op = "addPatterns"
  /\ ret.write = "partial"
  /\ ret.raised
  /\ getPatterns(memory) # <<>>

\* C9: when addPatterns, updateLastScannedSha or clear returns normally,
\* the store file holds the patterns and the last_scanned_sha of memory;
\* after clear there are no patterns and no bookmark, after
\* updateLastScannedSha(sha) the bookmark is sha and the patterns are as
\* before.
C9_PersistedBeforeReturn ==
  [][(call'.op \in MutatingOps /\ ~ret'.raised)
     => /\ StoredOnDisk(disk')
        /\ getPatterns(disk'.value) = getPatterns(memory')
        /\ getLastScannedSha(disk'.value) = getLastScannedSha(memory')
        /\ call'.op = "clear"
             => /\ getPatterns(memory') = <<>>
                /\ getLastScannedSha(memory') = Undefined
        /\ call'.op = "updateLastScannedSha"
             => /\ getLastScannedSha(memory') = call'.sha
                /\ getPatterns(memory') = getPatterns(memory)]_vars

\* a bookmark set on a repository with patterns, and written
C9_Witness ==
  /\ call.op = "updateLastScannedSha"
  /\ ~ret.raised
  /\ getPatterns(memory) # <<>>
  /\ getLastScannedSha(disk.value) = call.sha

-----------------------------------------------------------------------------
(* Properties of the risk scorer *)

\* C10: calculateRiskScore returns an integer from 1 to 10 for every
\* pattern with an integer risk_base and an occurrence_count of at least 1,
\* every file path and every repository.
C10_ScoreInRange ==
  call.op = "calculateRiskScore" => ret.score \in 1..10

\* the highest risk_base scored for the empty path on an empty repository
C10_Witness ==
  /\ call.op = "calculateRiskScore"
  /\ getPatterns(memory) = <<>>
  /\ call.filePath = ""
  /\ call.pattern.risk_base = 10 + RiskMargin
  /\ call.pattern.category = "off_by_one_loop"
  /\ ret.score = 10

-----------------------------------------------------------------------------
(* Properties of the sensitivity filter and the scanner *)

ScanOps == {"scanLines", "scanDocument"}

\* the cutoff the settings documentation gives for a sensitivity
Threshold(sensitivity) ==
  CASE sensitivity = "low" -> 7
    [] sensitivity = "medium" -> 5
    [] sensitivity = "high" -> 3

\* C11: for low, medium and high, adjustForSensitivity returns the score
\* when it is at least the threshold 7, 5 or 3 of the level and 0
\* otherwise, and scanDocument shows exactly the results of the scan whose
\* adjusted score is above 0, in the order of the scan.
C11_SensitivityThreshold ==
  /\ \A score \in (1 - RiskMargin)..(10 + RiskMargin), level \in Sensitivities :
       adjustForSensitivity(score, level)
         = IF score >= Threshold(level) THEN score ELSE 0
  /\ (call.op = "scanDocument" /\ ~ret.raised) =>
       ret.shown = SelectSeq(ret.results,
                             LAMBDA r : r.riskScore >= Threshold(call.sensitivity))

\* a result with score 6 that sensitivity low suppresses
C11_Witness ==
  /\ call.op = "scanDocument"
  /\ call.sensitivity = "low"
  /\ \E k \in DOMAIN ret.results :
       /\ ret.results[k].riskScore = 6
       /\ \A j \in DOMAIN ret.shown : ret.shown[j] # ret.results[k]

Visible(score, sensitivity) == adjustForSensitivity(score, sensitivity) > 0

\* the least score from 1 to 10 that a sensitivity shows
Cutoff(sensitivity) ==
  CHOOSE score \in 1..10 :
    /\ Visible(score, sensitivity)
    /\ \A lower \in 1..(score - 1) : ~Visible(lower, sensitivity)

\* C12: for every score from 1 to 10, what low shows medium shows and what
\* medium shows high shows; the cutoffs 7, 5, 3 do not rise from low to
\* medium to high; a result that scanDocument shows is visible under every
\* sensitivity from the call's on.
C12_SensitivityMonotonic ==
  /\ \A score \in 1..10 :
       /\ Visible(score, "low") => Visible(score, "medium")
       /\ Visible(score, "medium") => Visible(score, "high")
  /\ <<Cutoff("low"), Cutoff("medium"), Cutoff("high")>> = <<7, 5, 3>>
  /\ Cutoff("low") >= Cutoff("medium") /\ Cutoff("medium") >= Cutoff("high")
  /\ (call.op = "scanDocument" /\ ~ret.raised) =>
       \A k \in DOMAIN ret.shown :
         /\ Visible(ret.shown[k].riskScore, "high")
         /\ call.sensitivity = "low" => Visible(ret.shown[k].riskScore, "medium")

\* a result with score 6 shown under medium, which low would suppress
C12_Witness ==
  /\ call.op = "scanDocument"
  /\ call.sensitivity = "medium"
  /\ \E k \in DOMAIN ret.shown :
       /\ ret.shown[k].riskScore = 6
       /\ ~Visible(ret.shown[k].riskScore, "low")

\* the stored patterns whose regex new RegExp rejects
IsMalformed(p) == \A line \in LineTexts : matchLine(p.regex, line) = "error"

\* the repository without its i-th pattern
Without(m, i) ==
  [m EXCEPT !.patterns = SubSeq(@, 1, i - 1) \o SubSeq(@, i + 1, Len(@))]

\* the scan of the call in progress over another repository
SameScan(m) ==
  scanLines(m, call.lines, call.startLineNumber, call.language, call.filePath)

PatternById(m, id) ==
  getPatterns(m)[CHOOSE k \in DOMAIN getPatterns(m) : getPatterns(m)[k].id = id]

\* C13, as claimed: a scan does not raise because of a stored pattern whose
\* regex does not compile, and its results are those of the same scan over
\* the repository with that pattern removed.
C13_MalformedAsRemoved ==
  call.op \in ScanOps =>
    \A i \in DOMAIN getPatterns(memory) :
      IsMalformed(getPatterns(memory)[i]) =>
        /\ ~ret.raised
        /\ ret.results = SameScan(Without(memory, i)).results

\* C13, amended: a scan does not raise because of a stored pattern whose
\* regex does not compile, and it reports the same lines and patterns, in
\* the same order and with the same commits, reasons and categories, as the
\* same scan over the repository with that pattern removed; each riskScore
\* is the score against the whole repository, whose file history still
\* counts the commit references of the malformed pattern.
C13_MalformedSkipped ==
  call.op \in ScanOps =>
    \A i \in DOMAIN getPatterns(memory) :
      IsMalformed(getPatterns(memory)[i]) =>
        LET removed == SameScan(Without(memory, i)).results
        IN  /\ ~ret.raised
            /\ Len(ret.results) = Len(removed)
            /\ \A k \in DOMAIN removed :
                 ret.results[k] =
                   [removed[k] EXCEPT !.riskScore =
                      calculateRiskScore(PatternById(memory, removed[k].patternId),
                                         call.filePath, getPatterns(memory))]

\* a scan that reports a match of the pattern stored after a malformed one,
\* with another score than without the malformed one
C13_Witness ==
  /\ call.op = "scanLines"
  /\ \E i \in DOMAIN getPatterns(memory) :
       /\ IsMalformed(getPatterns(memory)[i])
       /\ i < Len(getPatterns(memory))
       /\ \E k \in DOMAIN ret.results :
            /\ ret.results[k].patternId = getPatterns(memory)[i + 1].id
            /\ ret.results[k] # SameScan(Without(memory, i)).results[k]

\* the results of scanLine for the lines from the i-th on, one after another
RECURSIVE LineByLine(_)
LineByLine(i) ==
  IF i > Len(call.lines) THEN <<>>
  ELSE scanLine(memory, call.lines[i], call.startLineNumber + (i - 1),
                call.language, call.filePath).results
         \o LineByLine(i + 1)

\* where the pattern with an id stands in the repository
IndexOfId(id) ==
  CHOOSE k \in DOMAIN getPatterns(memory) : getPatterns(memory)[k].id = id

\* C14: the results of scanLines are those of scanLine for lines[0],
\* lines[1], ... with line numbers start, start + 1, ..., one after
\* another: line numbers do not fall along the results and lie in
\* start..start+len-1, and the results of one line follow the order of the
\* repository with no pattern twice.
C14_ScanLinesConcatenates ==
  (call.op \in ScanOps /\ ~ret.raised) =>
    /\ ret.results = LineByLine(1)
    /\ \A k \in DOMAIN ret.results :
         /\ ret.results[k].lineNumber >= call.startLineNumber
         /\ ret.results[k].lineNumber
              <= call.startLineNumber + Len(call.lines) - 1
    /\ \A j, k \in DOMAIN ret.results :
         j < k =>
           /\ ret.results[j].lineNumber <= ret.results[k].lineNumber
           /\ ret.results[j].lineNumber = ret.results[k].lineNumber =>
                IndexOfId(ret.results[j].patternId)
                  < IndexOfId(ret.results[k].patternId)

\* two lines scanned from line 5, each reported by the same two patterns
\* in repository order
C14_Witness ==
  /\ call.op = "scanLines"
  /\ Len(call.lines) = 2
  /\ Len(ret.results) = 4
  /\ ret.results[1].lineNumber = 5
  /\ ret.results[2].lineNumber = 5
  /\ ret.results[3].lineNumber = 6
  /\ ret.results[4].lineNumber = 6
  /\ ret.results[1].patternId # ret.results[2].patternId
  /\ ret.results[1].patternId = ret.results[3].patternId

-----------------------------------------------------------------------------
(* Properties of the pattern extractor *)

\* the categories of the detectors in their order of priority
DetectorOrder ==
  << "null_check_missing", "off_by_one_loop", "missing_await",
     "undefined_access", "type_error", "loose_equality",
     "missing_error_handling", "memory_leak", "unhandled_promise",
     "var_scoping", "race_condition" >>

\* the detectors that return a result for the pair of the call
Firing ==
  {k \in 1..NumDetectors :
     detector(k, call.buggyLine, call.fixedLine,
              detectLanguage(call.filename)).fired}

\* the pair of the call passes the checks made before the detectors run
Analysable ==
  /\ trim(call.buggyLine) # ""
  /\ trim(call.fixedLine) # ""
  /\ ~ /\ startsWith(trim(call.buggyLine), "//")
       /\ startsWith(trim(call.fixedLine), "//")

\* C16: a pair of lines yields one pattern or none; it yields one exactly
\* when it is analysable and some detector fires, and then the pattern's
\* category is that of the detector that comes first, in the order null
\* check, off-by-one loop, missing await, undefined access, type coercion,
\* loose equality, missing error handling, memory leak, unhandled promise,
\* var scoping, race condition, among the detectors that fire.
C16_FirstDetectorWins ==
  call.op = "analyzeBugPattern" =>
    \A fired \in {Firing} :
      /\ ret.analysed.found <=> (Analysable /\ fired # {})
      /\ ret.analysed.found =>
           \E k \in fired :
             /\ \A j \in fired : k <= j
             /\ ret.analysed.pattern.category = DetectorOrder[k]

\* a pair on which the null check and the off-by-one detector both fire
\* is classified as a missing null check
C16_Witness ==
  /\ call.op = "analyzeBugPattern"
  /\ call.buggyLine = "for (let i = 0; i <= arr.length; i++) {"
  /\ call.fixedLine = "for (let i = 0; arr && i < arr.length; i++) {"
  /\ {1, 2} \subseteq Firing
  /\ ret.analysed.found
  /\ ret.analysed.pattern.category = "null_check_missing"

\* the lines of the patch of the call
PatchOf == split(call.file.patch, "\n")

DiffOps == {"extractPatternsFromDiff", "addPatterns"}

\* kinds of patch lines: the hunk header, the removed line and the added
\* line; a neutral line begins with neither "-" nor "+", or is a file marker
IsHeader(line) == startsWith(line, "@@")
IsRemoved(line) == startsWith(line, "-") /\ ~startsWith(line, "---")
IsAdded(line) == startsWith(line, "+") /\ ~startsWith(line, "+++")
IsNeutral(line) == ~IsRemoved(line) /\ ~IsAdded(line)

\* C17: the candidate pairs of a patch are made at the added lines that
\* come immediately after a removed line, one pair at each, of the removed
\* line just before it and the added line itself; no pair is made at any
\* other line.
C17_PairsFollowRemovalRuns ==
  call.op \in DiffOps =>
    \A lines \in {PatchOf} : \A calls \in {ret.extracted.calls} :
      /\ {calls[k].at : k \in DOMAIN calls}
           = {i \in 2..Len(lines) : IsAdded(lines[i]) /\ IsRemoved(lines[i - 1])}
      /\ \A j, k \in DOMAIN calls : j < k => calls[j].at < calls[k].at
      /\ \A k \in DOMAIN calls :
           /\ calls[k].buggyLine = substring1trim(lines[calls[k].at - 1])
           /\ calls[k].fixedLine = substring1trim(lines[calls[k].at])

\* C18: between the removed line and the added line of a candidate pair
\* there is no neutral line (context line, hunk header, no-newline marker,
\* file marker), and after a neutral line the removal block is closed.
C18_NeutralLineResets ==
  call.op \in DiffOps =>
    \A lines \in {PatchOf} : \A calls \in {ret.extracted.calls} :
      /\ \A k \in DOMAIN calls :
           \E j \in 1..(calls[k].at - 1) :
             /\ IsRemoved(lines[j])
             /\ calls[k].buggyLine = substring1trim(lines[j])
             /\ \A i \in (j + 1)..(calls[k].at - 1) : ~IsNeutral(lines[i])
      /\ IsNeutral(lines[Len(lines)]) => ~ret.extracted.inRemovalBlock

\* Scenario A
ScenarioBuggy == "for (let i = 0; i <= arr.length; i++) {"
ScenarioFixed == "for (let i = 0; i < arr.length; i++) {"

IsScenarioA(c) == c.buggyLine = ScenarioBuggy /\ c.fixedLine = ScenarioFixed

\* C19: the pair of Scenario A is classified by the off-by-one detector,
\* the null check before it not firing: category off_by_one_loop, risk 9;
\* and when the two patterns of a patch both come from this pair, merging
\* them into a new repository stores one pattern with occurrence_count 2.
C19_ScenarioA ==
  call.op \in DiffOps =>
    \A calls \in {ret.extracted.calls} :
      /\ \A k \in DOMAIN calls :
           IsScenarioA(calls[k]) =>
             /\ ~detectNullCheck(ScenarioBuggy, ScenarioFixed,
                                 detectLanguage(call.file.filename)).fired
             /\ calls[k].analysed.found
             /\ calls[k].analysed.pattern.category = "off_by_one_loop"
             /\ calls[k].analysed.pattern.risk_base = 9
      /\ ( /\ call.op = "addPatterns"
           /\ Len(calls) = 2
           /\ \A k \in DOMAIN calls : IsScenarioA(calls[k]) )
         => /\ ~ret.raised
            /\ Len(getPatterns(memory)) = 1
            /\ getPatterns(memory)[1].category = "off_by_one_loop"
            /\ getPatterns(memory)[1].risk_base = 9
            /\ getPatterns(memory)[1].occurrence_count = 2

\* a patch that replaces the loop line twice has been analysed and its two
\* patterns merged into one with two occurrences
C19_Witness ==
  /\ call.op = "addPatterns"
  /\ call.file.patch = join(<<RemovedLoop, AddedLoop, RemovedLoop, AddedLoop>>)
  /\ Len(ret.extracted.patterns) = 2
  /\ \A k \in DOMAIN ret.extracted.calls : IsScenarioA(ret.extracted.calls[k])
  /\ Len(getPatterns(memory)) = 1
  /\ getPatterns(memory)[1].occurrence_count = 2

\* the starting line that a hunk header of the model gives
HeaderStart(line) == CASE line = HunkA -> 10 [] line = HunkB -> 20

\* the line-number cursor when the line at index `at` is reached
Cursor(lines, at) ==
  LET headers == {j \in 1..(at - 1) : IsHeader(lines[j])}
      last == IF headers = {} THEN 0
              ELSE CHOOSE j \in headers : \A i \in headers : i <= j
  IN  (IF last = 0 THEN 0 ELSE HeaderStart(lines[last]))
        + Cardinality({j \in (last + 1)..(at - 1) :
                         ~IsRemoved(lines[j]) /\ ~startsWith(lines[j], "\\")})

\* C20: the line number of a candidate pair, and of the commit reference
\* of its pattern, is the cursor at the added line: the starting line of
\* the last hunk header before it, or 0 without one, plus the number of
\* lines since that are neither removed lines nor lines beginning with a
\* backslash.
C20_LineNumberIsCursor ==
  call.op \in DiffOps =>
    \A lines \in {PatchOf} : \A calls \in {ret.extracted.calls} :
      \A k \in DOMAIN calls :
        /\ calls[k].lineNumber = Cursor(lines, calls[k].at)
        /\ calls[k].analysed.found =>
             calls[k].analysed.pattern.commits[1].line
               = Cursor(lines, calls[k].at)

\* after the header of a hunk that starts at line 10, a context line and a
\* removed line, the pair is recorded at line 11
C20_Witness ==
  /\ call.op = "extractPatternsFromDiff"
  /\ call.file.patch = join(<<HunkA, ContextLine, RemovedLoop, AddedLoop>>)
  /\ Len(ret.extracted.calls) = 1
  /\ ret.extracted.calls[1].at = 4
  /\ ret.extracted.calls[1].lineNumber = 11
  /\ ret.extracted.patterns[1].commits[1].line = 11

-----------------------------------------------------------------------------
(* Properties of the file-history bonus *)

\* the commit references, over all patterns, whose file has the basename
\* of filePath
RECURSIVE BasenameCount(_, _)
BasenameCount(patterns, filePath) ==
  IF patterns = <<>> THEN 0
  ELSE LET Same(commit) ==
             LastSegment(Chars(commit.file)) = LastSegment(Chars(filePath))
       IN  Len(SelectSeq(Head(patterns).commits, Same))
           + BasenameCount(Tail(patterns), filePath)

\* the bonus, in thousandths, that a count maps to
BonusOf(n) ==
  IF n >= 5 THEN 1500 ELSE IF n >= 3 THEN 1000 ELSE IF n >= 1 THEN 500 ELSE 0

\* C21: when a score is computed, the file-history bonus is the one that
\* the number of commit references with the basename of the scanned path
\* maps to: references to files with another basename do not count, and
\* none counts for a path without a basename.
C21_FileHistoryByBasename ==
  call.op = "calculateRiskScore" =>
    calculateFileHistoryFactor(call.filePath, getPatterns(memory))
      = BonusOf(IF LastSegment(Chars(call.filePath)) = <<>> THEN 0
                ELSE BasenameCount(getPatterns(memory), call.filePath))

-----------------------------------------------------------------------------
(* Properties of single detectors *)

\* the line has an `if` that mentions null or undefined
HasIfGuard(line) ==
  includes(line, "if") /\ (includes(line, "null") \/ includes(line, "undefined"))

\* the fixed line has a guard that the buggy line lacks
GuardAdded(buggyLine, fixedLine) ==
  \/ includes(fixedLine, "?.") /\ ~includes(buggyLine, "?.")
  \/ includes(fixedLine, "&&") /\ ~includes(buggyLine, "&&")
  \/ HasIfGuard(fixedLine) /\ ~HasIfGuard(buggyLine)

\* C22: a pair is classified as a missing null check only if the fixed line
\* adds a guard ("?.", "&&", or an if that mentions null or undefined) that
\* the buggy line lacks, and the buggy line has a "." access.
C22_NullCheckNeedsAddedGuard ==
  ( /\ call.op = "analyzeBugPattern"
    /\ ret.analysed.found
    /\ ret.analysed.pattern.category = "null_check_missing" )
  => /\ GuardAdded(call.buggyLine, call.fixedLine)
     /\ includes(call.buggyLine, ".")

\* C29: a pair of lines that are equal after trimming yields no pattern.
C29_UnchangedLineYieldsNothing ==
  ( /\ call.op = "analyzeBugPattern"
    /\ trim(call.buggyLine) = trim(call.fixedLine) )
  => ~ret.analysed.found

-----------------------------------------------------------------------------
(* Properties of repositories fed by the extractor *)

\* the commit references of all the patterns
RECURSIVE AllCommits(_)
AllCommits(patterns) ==
  IF patterns = <<>> THEN <<>>
  ELSE Head(patterns).commits \o AllCommits(Tail(patterns))

\* C25: in a repository that starts empty and is fed only by extracted
\* patterns through addPatterns, with any clears, every stored pattern's
\* occurrence_count is the number of its commit references and is at least
\* 1, and getStats().totalOccurrences is the number of commit references
\* stored.
C25_CountIsCommitReferences ==
  /\ \A i \in DOMAIN memory.patterns :
       /\ memory.patterns[i].occurrence_count = Len(memory.patterns[i].commits)
       /\ memory.patterns[i].occurrence_count >= 1
  /\ getStats(memory).totalOccurrences
       = Len(AllCommits(memory.patterns))

\* a merge has joined the references of two extractions, one of them with a
\* key found twice
C25_Witness ==
  /\ call.op = "addPatterns"
  /\ \E i \in DOMAIN memory.patterns :
       /\ memory.patterns[i].occurrence_count >= 3
       /\ \E c, d \in DOMAIN memory.patterns[i].commits :
            memory.patterns[i].commits[c].sha # memory.patterns[i].commits[d].sha
  /\ Len(memory.patterns) >= 2


\* what the files of a history yield, file by file: the language of the
\* file with the regex and the category of each pattern mined from it
Mined(commits) ==
  UNION { UNION { LET Keys(patterns) ==
                        { [ language |-> patterns[k].language,
                            regex |-> patterns[k].regex,
                            category |-> patterns[k].category ] :
                            k \in DOMAIN patterns }
                  IN  Keys(extractPatternsFromDiff(
                             commits[c].files[f],
                             GitHubCommit(commits[c].sha,
                                          commits[c].message)).patterns) :
                    f \in {g \in DOMAIN commits[c].files :
                             commits[c].files[g].patch # ""} } :
            c \in {b \in DOMAIN commits : commits[b].hasFiles} }

\* C26: once the patterns extracted from a history are merged, a query for
\* the language of a file returns a pattern with the regex and the category
\* of every pattern mined from that file.
C26_MinedLanguageIsQueryable ==
  (call.op = "addPatterns" /\ ~ret.raised) =>
    \A p \in Mined(call.commits) :
      \E i \in DOMAIN getPatternsByLanguage(memory, p.language) :
        SameKey(getPatternsByLanguage(memory, p.language)[i], p)

\* the constant each detector writes for its category
RiskBaseOf(category) ==
  CASE category = "null_check_missing" -> 8
    [] category = "off_by_one_loop" -> 9
    [] category = "missing_await" -> 7
    [] category = "undefined_access" -> 7
    [] category = "type_error" -> 5
    [] category = "loose_equality" -> 5
    [] category = "missing_error_handling" -> 7
    [] category = "memory_leak" -> 6
    [] category = "unhandled_promise" -> 6
    [] category = "var_scoping" -> 4
    [] category = "race_condition" -> 7
    [] OTHER -> 0

\* what the eleven detectors return on the line pairs of the model, taken
\* from TypeScript files
DetectorResults ==
  { r \in { detector(t[1], t[2], t[3], "typescript") :
              t \in (1..NumDetectors) \X PairBuggyLines \X PairFixedLines } :
      r.fired }

\* C30: every detector writes the constant of its category, and in a
\* repository that starts empty and is fed by the extractor only,
\* every stored pattern's risk_base is the constant of its category, after
\* any merges.
C30_RiskBaseFollowsCategory ==
  /\ \A r \in DetectorResults : r.riskBase = RiskBaseOf(r.category)
  /\ \A i \in DOMAIN memory.patterns :
       memory.patterns[i].risk_base = RiskBaseOf(memory.patterns[i].category)

\* a stored pattern has been merged with extracted ones twice
C30_Witness ==
  /\ call.op = "addPatterns"
  /\ Cardinality({r.category : r \in DetectorResults}) = NumDetectors
  /\ \E i, j \in DOMAIN memory.patterns :
       /\ memory.patterns[i].occurrence_count >= 3
       /\ memory.patterns[i].category # memory.patterns[j].category

-----------------------------------------------------------------------------
(* Properties of failed writes *)

\* C28: when save raises during addPatterns, updateLastScannedSha or clear,
\* the patterns and last_scanned_sha in memory are the same as before the
\* call.
C28_FailedSaveChangesNothing ==
  [][ ( /\ call'.op \in {"addPatterns", "updateLastScannedSha", "clear"}
        /\ ret'.raised
        /\ ret'.write \in {"denied", "partial"} )
      => /\ getPatterns(memory') = getPatterns(memory)
         /\ getLastScannedSha(memory') = getLastScannedSha(memory) ]_vars

-----------------------------------------------------------------------------
(* Properties of the extension *)

\* C23: while highlights are disabled, no editor holds a decoration.
C23_DisabledShowsNothing ==
  ~ext.isEnabled => \A editor \in Editors : vscode.decorations[editor] = <<>>

IsInitialize(c) ==
  c.op \in {"codeghost.initialize", "codeghost.refreshPatterns"}

\* C27: Initialize or Refresh Patterns run again over the commit history of
\* the run before (the same commits fetched, so the same patterns
\* extracted) leaves the occurrence_count and the commits of every stored
\* pattern as they were.
C27_InitializeAgainChangesNothing ==
  [][ ( /\ IsInitialize(call) /\ IsInitialize(call')
        /\ call.fetched.patterns # <<>>
        /\ call'.fetched = call.fetched )
      => /\ Len(memory'.patterns) = Len(memory.patterns)
         /\ \A i \in DOMAIN memory.patterns :
              /\ memory'.patterns[i].occurrence_count
                   = memory.patterns[i].occurrence_count
              /\ memory'.patterns[i].commits = memory.patterns[i].commits ]_vars


\* the scan that the callback of a timer for `document` makes
TimerScan(document) ==
  IF /\ vscode.activeTextEditor # NoEditor
     /\ DocumentOf(vscode.activeTextEditor) = document
  THEN <<vscode.activeTextEditor>> ELSE <<>>

\* a document change leaves the timer it started as the only one pending,
\* and scans nothing itself
StartsTheOnlyTimer ==
  /\ vscode'.timers = {[id |-> ext'.scanTimeout, document |-> call'.document]}
  /\ \A t \in vscode.timers : t.id # ext'.scanTimeout
  /\ ret'.scanned = <<>>

\* the timer that expires is the one the last change started; no timer is
\* left, and the active editor is scanned if it shows that change's document
ExpiresOnce ==
  /\ vscode.timers = {[id |-> ext.scanTimeout, document |-> call'.document]}
  /\ vscode'.timers = {}
  /\ ret'.scanned = TimerScan(call'.document)

\* C24 as stated: at most one scan timer is pending; every document change
\* made while highlights are enabled and scan-on-save-only is off cancels
\* the pending timer and starts a new one; an expiring timer is the last
\* change's, and it scans only the active editor and only if that editor
\* shows the document of that change.
C24_DebouncedWheneverEnabled ==
  [][ /\ Cardinality(vscode'.timers) <= 1
      /\ ( /\ call'.op = "changeTextDocument"
           /\ ext.isEnabled
           /\ ~vscode.configuration.scanOnSaveOnly ) => StartsTheOnlyTimer
      /\ call'.op = "timeout" => ExpiresOnce ]_vars

\* C24, for an extension whose scanner exists: at most one scan timer is
\* pending; every document change made while highlights are enabled, the
\* scanner exists and scan-on-save-only is off cancels the pending timer and
\* starts a new one; an expiring timer is the last change's, and it scans
\* only the active editor and only if that editor shows the document of
\* that change.
C24_Debounced ==
  [][ /\ Cardinality(vscode'.timers) <= 1
      /\ ( /\ call'.op = "changeTextDocument"
           /\ ext.isEnabled
           /\ ext.codeScanner
           /\ ~vscode.configuration.scanOnSaveOnly ) => StartsTheOnlyTimer
      /\ call'.op = "timeout" => ExpiresOnce ]_vars

\* a second change has replaced the timer of a first, and the timer has
\* expired and scanned the active editor
C24_Witness ==
  /\ call.op = "timeout"
  /\ ext.scanTimeout >= 2
  /\ ret.scanned = <<1>>
  /\ vscode.decorations[1] # <<>>
  /\ vscode.timers = {}

=============================================================================
